---- MODULE Spec2Model ----
(***************************************************************************)
(* A model of the interactive sphere of carol-liaocn/friendly              *)
(* (src/src/components/home/HomePage.js, component RotatingSphere).        *)
(*                                                                         *)
(* Several specifications share the module and its variables:             *)
(*   SpecCell   the per-cell animation state machine driven by pointer     *)
(*              moves (handleMouseMove, handleCubeFlip, resetTrailStates)  *)
(*              and by rendered frames (animate, updateCubeAnimations);    *)
(*   SpecBurst  the same with a 60 Hz display and fast pointer moves only; *)
(*   SpecDrag   the same with a pointer that changes place, for dragging;  *)
(*   SpecSphere the geometry of the sphere for the heights of the window;  *)
(*   SpecPool   the video pool: preloads, direct loads, their timers and   *)
(*              events, clicks and switches;                               *)
(*   SpecTimeout the same where every media error is one that handleError  *)
(*              blacklists, so that the other failures are timeouts;       *)
(*   SpecLife   the pool of one video with the render loop and the cleanup *)
(*              of the mount effect;                                       *)
(*   SpecFrames the render loop of a sphere at rest on displays that may   *)
(*              stall between two frames;                                  *)
(*   SpecTexture the batched replacement of the cells' front textures      *)
(*              (updateCubeTextures, processBatch);                        *)
(*   SpecOverlap the same where a run is started while the run before it   *)
(*              still has a batch requested;                               *)
(*   SpecQueue  the pool without clicks for a media list that names a      *)
(*              video twice;                                               *)
(*   SpecPage   the HomePage component around the sphere: loading overlay, *)
(*              wheel listener and scroll lock;                            *)
(*   SpecLazy   the LazyMedia component (src/src/components/LazyMedia.js): *)
(*              loading, retries and the preview of one medium.            *)
(*                                                                         *)
(* Fixed point.  The source computes in IEEE doubles; the model computes   *)
(* the same expressions on integers:                                       *)
(*   time          1 unit = 1/3 ms   (so 1000/60 ms = 50, 33 ms = 99)      *)
(*   opacity, flip progress, intensities   1 unit = 1/1000                 *)
(*   angles        1 unit = PI/1000 rad  (so flipProgress = angle / PI     *)
(*                 is the same number)                                     *)
(*   angular speed 1 unit = 1/1000 rad/s                                   *)
(*   offsets       1 unit = 1/10000 scene units, measured along the cell's *)
(*                 outward normal: every offset the source writes is a     *)
(*                 multiple of originalPosition.normalize()                *)
(*   offset speed  1 unit = 1/10000 scene units per second                 *)
(*   drag rotation 1 unit = 0.01 rad, the turn that 1 px of drag adds; the   *)
(*                 auto-rotation that animate adds to rotationRef is a       *)
(*                 separate summand and is not part of the model             *)
(*                                                                         *)
(* Time in SpecPool.  Timers and media events fire in any order, but for   *)
(* the orders that the due times of the mount effect's timers fix: the     *)
(* index effect runs first, the timers of the first 200 ms (first preload, *)
(* 100 ms load, later preloads) fire in that order and before any media    *)
(* event, and the load timeouts (5 s, 8 s after a load began) fire after   *)
(* the 5 s forced-fallback timer.  The 200 ms src timer of a direct load   *)
(* is folded into the load: an element cleaned up while still armed either *)
(* had its src set (and has none now) or gets it afterwards.  The media    *)
(* list holds videos, so loadAndApplyTexture takes its video branch.       *)
(***************************************************************************)
EXTENDS Integers, Sequences, FiniteSets, TLC

VARIABLES
    \* ---- cell animation (cubesDataRef, mouseRef, mouseSpeedRef, lastFrameTimeRef)
    cubes,          \* cubesDataRef.current: per cell, the animation record
    isDown,         \* mouseRef.current.isDown
    history,        \* mouseSpeedRef.current.history (speed samples, px/s)
    currentSpeed,   \* mouseSpeedRef.current.currentSpeed (in sixtieths of its unit)
    sinceMouse,     \* performance.now() - mouseSpeedRef.current.lastUpdateTime, saturated
    sinceFrame,     \* performance.now() - lastFrameTimeRef.current, below one interval
    sinceAct,       \* history: per cell, frame time rendered since its last activation
    rafGap,         \* the display's refresh period: the time between two frame callbacks
    frames,         \* history: frames rendered so far
    moves,          \* history: pointer moves sampled so far
    \* ---- sphere geometry (calculateSphereSize, generateCubePositions)
    viewportHeight, \* window.innerHeight, in px
    sphereRadius,   \* the radius the sphere was last built with
    ringCells,      \* per ring, the number of cells generateCubePositions placed on it
    ringPhi,        \* per ring, the polar angle phi of its cells, in PI/1000
    \* ---- dragging (mouseRef, rotationRef)
    mouseAt,        \* mouseRef.current.x and .y: where the pointer was last recorded, in px
    pointerAt,      \* history: clientX and clientY of the last pointer event, in px
    dragRotation,   \* the part of rotationRef.current that drags have added, x and y
    \* ---- face materials (createCubeMaterials, yellowMaterials)
    frontOpacity,   \* per cell, the opacity of its own front material, mesh.material[4]
    sideOpacity,    \* the opacity of the five yellowMaterials every cell's mesh shares
    \* ---- texture updates (updateCubeTextures)
    numCubes,       \* cubesDataRef.current.length of the sphere the textures are updated on
    frontTexture,   \* per cell of that sphere, the identifier whose texture material[4] maps
    textureRun,     \* the closure of the last updateCubeTextures call: texture, priorities,
                    \* sorted cells, currentIndex, and whether a processBatch is requested
    updated,        \* history: the cells whose front material that run has replaced, in order
    \* ---- the render loop
    lastStep,       \* history: the deltaTime of the last rendered frame and the step it
                    \* gave to updateCubeAnimations
    \* ---- the page around the sphere (component HomePage)
    homePage,       \* its state, its wheel listener and its timers
    \* ---- a lazily loaded picture or video (component LazyMedia)
    lazyMedia,      \* its props, its state, its media elements and its timers
    \* ---- life cycle (the mount effect and its cleanup, animationIdRef)
    mounted,        \* the mount effect has run and its cleanup has not
    rafPending,     \* requestAnimationFrame(animate) calls not yet called back or cancelled
    \* ---- video pool (videoPoolRef, failedVideosRef, videoElementRef, ...)
    numMedia,       \* mediaList.length; the identifiers are 1..numMedia, in list order
    videoPool,      \* videoPoolRef.current: per identifier, the pool entry and its element
    failedVideos,   \* failedVideosRef.current: the blacklist
    preloadQueue,   \* preloadQueueRef.current
    preloadCalls,   \* per identifier, the state of its preloadVideo call in preloadVideos
    isPreloading,   \* isPreloadingRef.current
    directs,        \* the media elements loadAndApplyTexture created, in creation order
    videoElement,   \* videoElementRef.current: no element, a direct one or a pooled one
    currentVideoPath, \* currentVideoPathRef.current
    currentMediaIndex, \* the React state currentMediaIndex, as an identifier
    effectPending,  \* the currentMediaIndex effect is due to run, and what made it due
    timers,         \* pending setTimeout calls that will start a direct load
    forcedTimer,    \* the 5 s forced-fallback timer of the mount effect is pending
    cubeGroup,      \* cubeGroupRef.current is set: a sphere model exists
    cubesData,      \* cubesDataRef.current holds the cells of a sphere (is not empty)
    displayed,      \* the identifier whose texture the sphere was last given
    switchWindow,   \* Date.now() - lastSwitchTimeRef.current < 300
    burst,          \* history: clicks that started a swap or a load within one 300 ms window
    outcomes,       \* history: per identifier, how its first three load attempts ended
    everLoaded,     \* history: the identifiers of which some load has completed
    retries,        \* history: per identifier, the delays of the retries the error path scheduled
    lastSwitch,     \* history: what the last click did
    sphereBuilds,   \* history: calls of initCubeSphere
    clicks          \* history: clicks so far

sphereVars == <<viewportHeight, sphereRadius, ringCells, ringPhi>>

lifeVars == <<mounted, rafPending>>

dragVars == <<mouseAt, pointerAt, dragRotation>>

faceVars == <<frontOpacity, sideOpacity>>

textureVars == <<numCubes, frontTexture, textureRun, updated>>

cellVars == <<cubes, isDown, history, currentSpeed, sinceMouse, sinceFrame, sinceAct,
              rafGap, frames, moves, sphereVars, lifeVars, dragVars, faceVars,
              textureVars, lastStep, homePage, lazyMedia>>

poolVars == <<numMedia, videoPool, failedVideos, preloadQueue, preloadCalls, isPreloading,
              directs, videoElement, currentVideoPath, currentMediaIndex, effectPending,
              timers, forcedTimer, cubeGroup, cubesData, displayed, switchWindow, burst, outcomes,
              everLoaded, retries, lastSwitch, sphereBuilds, clicks>>

vars == <<cubes, isDown, history, currentSpeed, sinceMouse, sinceFrame, sinceAct,
          rafGap, frames, moves, viewportHeight, sphereRadius, ringCells, ringPhi,
          mounted, rafPending, mouseAt, pointerAt, dragRotation,
          frontOpacity, sideOpacity, numCubes, frontTexture, textureRun, updated,
          lastStep, homePage, lazyMedia,
          numMedia, videoPool, failedVideos, preloadQueue, preloadCalls, isPreloading,
          directs, videoElement, currentVideoPath, currentMediaIndex, effectPending,
          timers, forcedTimer, cubeGroup, cubesData, displayed, switchWindow, burst, outcomes,
          everLoaded, retries, lastSwitch, sphereBuilds, clicks>>

----------------------------------------------------------------------------
(* Arithmetic *)

Abs(x) == IF x < 0 THEN -x ELSE x

Sign(x) == IF x > 0 THEN 1 ELSE IF x < 0 THEN -1 ELSE 0

Min(a, b) == IF a < b THEN a ELSE b

Max(a, b) == IF a > b THEN a ELSE b

\* a / b rounded to the nearest integer (b > 0)
RDiv(a, b) == (2 * a + b) \div (2 * b)

----------------------------------------------------------------------------
(* SPHERE_CONFIG and the other literals of the cell animation, in model units *)

FlipRadius == 250            \* 0.25 scene units: the influence radius
FlipDuration == 750          \* 250 ms
TrailDuration == 900         \* 300 ms
ReturnDuration == 750        \* 250 ms
MaxTrailRotation == 600      \* 0.6 PI
InitialTrailVelocity == 3000 \* 3.0 rad/s
MaxFloatHeight == 400        \* 0.04 scene units
SpringStiffness == 10        \* 10.0
DampingTenths == 7           \* dampingRatio 0.7
ExplodeDuration == 750       \* 250 ms
ExplodeDistance == 1000      \* 0.1 scene units
MouseSpeedThreshold == 108   \* 1.8 px/s, in 1/60 px/s
HistoryLen == 5              \* speed samples kept
MouseThrottle == 99          \* 33 ms between sampled pointer moves
StallTime == 30000           \* 10 s without a frame callback: a tab in the background
MaxStep == 99                \* 0.033 s: the largest physics step
DragInterval == 50           \* 1000/60 ms
IdleInterval == 100          \* 1000/30 ms
MaxFlipDelay == 150          \* 0.05 s: flipDelay = normalizedDistance * 0.05 stays below it

\* a run renders at most MaxFrames frames and samples at most MaxMoves pointer moves
MaxFrames == 20

MaxMoves == 2

\* The cells of the model.  Every handler treats the cells one by one, reading only
\* the cell's own record and the pointer input, so one cell shows what any cell does.
Cells == {1}

\* distances from the pointer's hit point to a cell (1/1000 scene units)
HitDistances == {0, 200, 300}

\* pointer speed samples, in 1/60 px/s: at rest, and 9 px/s
SpeedSamples == {0, 540}

\* time between two animation-frame callbacks: callbacks at 30 Hz, so that every
\* callback renders a frame with the clamped step in both modes
RafGaps == {100}

----------------------------------------------------------------------------
(* Functions of the animation curves *)

\* p = t / d in 1/1000
Frac(t, d) == RDiv(1000 * t, d)

\* twice the sine: an explosion that throws a cell twice as far
SinPiTwice(p) == LET a == RDiv(p * (1000 - p), 100) IN RDiv(32000 * a, 50000 - 4 * a)

\* sin(PI * p) * 1000 for 0 <= p <= 1 (Bhaskara's approximation, within 0.2%)
SinPi(p) == LET a == RDiv(p * (1000 - p), 100) IN RDiv(16000 * a, 50000 - 4 * a)

\* x^3 for x in 1/1000
Cube3(x) == RDiv(x * x * x, 1000000)

\* easeOut = 1 - (1 - p)^3
EaseOut(p) == 1000 - Cube3(1000 - p)

\* easeInOut = p < 0.5 ? 2 p^2 : 1 - (-2 p + 2)^3 / 2
EaseInOut(p) ==
    IF p < 500
    THEN RDiv(2 * p * p, 1000)
    ELSE 1000 - 4 * Cube3(1000 - p)

----------------------------------------------------------------------------
(* One cell: the record initCubeSphere creates.  mesh, uv and the original   *)
(* position and rotation do not change; lastActiveTime, maxOffset and        *)
(* isFlipped are written and never read, and are left out.                   *)

NewCube ==
    [ flipProgress |-> 0, targetFlipProgress |-> 0, flipDelay |-> 0, delayTimer |-> 0,
      trailTimer |-> 0, isInTrail |-> FALSE, isInReturn |-> FALSE, isExploding |-> FALSE,
      trailIntensity |-> 0, rotationVelocity |-> 0, maxRotationAngle |-> 0,
      currentRotationAngle |-> 0, currentOffset |-> 0, targetOffset |-> 0,
      offsetVelocity |-> 0, currentOpacity |-> 1000, targetOpacity |-> 1000,
      explodeTimer |-> 0, explodeDirection |-> 0, explodeIntensity |-> 0 ]

\* handleCubeFlip, the body of its forEach for one cell at `distance` from the hit point
FlipCube(c, distance, mouseSpeed) ==
    LET isHighSpeed == mouseSpeed > MouseSpeedThreshold
        normalizedDistance == (distance * 1000) \div FlipRadius
        fadeEffect == 1000 - normalizedDistance
    IN  IF distance < FlipRadius
        THEN LET c1 ==
                   IF isHighSpeed /\ ~c.isExploding
                   THEN [c EXCEPT !.isExploding = TRUE,
                                  !.explodeTimer = 0,
                                  !.explodeIntensity =
                                      Min(1000, (mouseSpeed * 1000) \div MouseSpeedThreshold),
                                  !.explodeDirection = 1,
                                  !.targetOpacity = 850]
                   ELSE IF ~c.isExploding
                   THEN [c EXCEPT !.targetFlipProgress = Max(300, fadeEffect),
                                  !.flipDelay = RDiv(normalizedDistance * MaxFlipDelay, 1000),
                                  !.targetOffset = RDiv(MaxFloatHeight * fadeEffect, 1000),
                                  !.targetOpacity = 920]
                   ELSE c
             IN  [c1 EXCEPT !.isInTrail = FALSE,
                            !.isInReturn = FALSE,
                            !.trailTimer = 0,
                            !.trailIntensity = fadeEffect,
                            !.rotationVelocity = 0]
        ELSE IF ~c.isInTrail /\ ~c.isInReturn /\ ~c.isExploding /\ c.targetFlipProgress > 0
        THEN [c EXCEPT !.isInTrail = TRUE,
                       !.isInReturn = FALSE,
                       !.trailTimer = 0,
                       !.rotationVelocity = RDiv(InitialTrailVelocity * c.trailIntensity, 1000),
                       !.maxRotationAngle = RDiv(MaxTrailRotation * c.trailIntensity, 1000),
                       !.currentRotationAngle = c.flipProgress]
        ELSE c

\* resetTrailStates on one cell, had it started the trail of every cell
ResetCubeUnguarded(c) ==
    [c EXCEPT !.isInTrail = TRUE, !.isInReturn = FALSE, !.trailTimer = 0,
              !.targetOffset = 0]

\* resetTrailStates, the body of its forEach for one cell
ResetCube(c) ==
    IF (c.targetFlipProgress > 0 \/ Abs(c.targetOffset) > 0)
       /\ ~c.isInTrail /\ ~c.isInReturn /\ ~c.isExploding
    THEN LET ti == Max(c.targetFlipProgress, RDiv(Abs(c.targetOffset) * 1000, MaxFloatHeight))
         IN  [c EXCEPT !.isInTrail = TRUE,
                       !.isInReturn = FALSE,
                       !.trailTimer = 0,
                       !.trailIntensity = ti,
                       !.rotationVelocity = RDiv(InitialTrailVelocity * ti, 1000),
                       !.maxRotationAngle = RDiv(MaxTrailRotation * ti, 1000),
                       !.currentRotationAngle = c.flipProgress,
                       !.targetOffset = 0,
                       !.currentOpacity = IF c.currentOpacity < 920 THEN 920
                                          ELSE c.currentOpacity]
    ELSE c

\* the opacity of an exploding cell: 0.85 + (1 - explodeProgress) * 0.15
ExplodeOpacityWrongSign(explodeProgress) == 850 + RDiv((1000 + explodeProgress) * 150, 1000)

ExplodeOpacity(explodeProgress) == 850 + RDiv((1000 - explodeProgress) * 150, 1000)

\* updateCubeAnimations, the body of its forEach for one cell; dt is the step in
\* time units (deltaTimeMs; deltaTime in seconds is dt / 3000)
ExplodeStep(c, dt) ==
    LET timer == c.explodeTimer + dt
        explodeProgress == Frac(timer, ExplodeDuration)
    IN  IF timer < ExplodeDuration
        THEN [c EXCEPT !.explodeTimer = timer,
                       !.currentRotationAngle =
                           RDiv(EaseOut(explodeProgress) * 2 * c.explodeIntensity, 1000),
                       !.currentOffset =
                           c.explodeDirection
                           * RDiv(RDiv(ExplodeDistance * c.explodeIntensity, 1000)
                                  * SinPi(explodeProgress), 1000),
                       !.currentOpacity = ExplodeOpacity(explodeProgress)]
        ELSE [c EXCEPT !.explodeTimer = timer,
                       !.isExploding = FALSE,
                       !.isInReturn = TRUE,
                       !.trailTimer = 0,
                       !.targetOpacity = 1000]

TrailStep(c, dt) ==
    LET timer == c.trailTimer + dt
        trailProgress == Frac(timer, TrailDuration)
        velocity == RDiv(RDiv(InitialTrailVelocity * c.trailIntensity, 1000)
                         * (1000 - trailProgress), 1000)
        \* rotationVelocity * deltaTime radians, in PI/1000 (PI = 355/113)
        angle == c.currentRotationAngle + RDiv(velocity * dt * 113, 3000 * 355)
        capped == angle > c.maxRotationAngle
    IN  IF timer < TrailDuration
        THEN [c EXCEPT !.trailTimer = timer,
                       !.rotationVelocity = IF capped THEN 0 ELSE velocity,
                       !.currentRotationAngle = IF capped THEN c.maxRotationAngle ELSE angle,
                       !.targetOpacity = 920 + RDiv(trailProgress * 80, 1000)]
        ELSE [c EXCEPT !.trailTimer = 0,
                       !.isInTrail = FALSE,
                       !.isInReturn = TRUE,
                       !.rotationVelocity = 0]

\* the end of the return, had it left the offsets as they were
ReturnedAloft(c) ==
    [c EXCEPT !.isInReturn = FALSE,
              !.currentRotationAngle = 0,
              !.flipProgress = 0,
              !.targetFlipProgress = 0,
              !.trailTimer = 0,
              !.trailIntensity = 0,
              !.rotationVelocity = 0,
              !.maxRotationAngle = 0,
              !.currentOpacity = 1000,
              !.targetOpacity = 1000]

\* the end of the return: "reset all states"
Returned(c) ==
    [c EXCEPT !.isInReturn = FALSE,
              !.currentRotationAngle = 0,
              !.flipProgress = 0,
              !.targetFlipProgress = 0,
              !.trailTimer = 0,
              !.trailIntensity = 0,
              !.rotationVelocity = 0,
              !.maxRotationAngle = 0,
              !.currentOffset = 0,
              !.targetOffset = 0,
              !.currentOpacity = 1000,
              !.targetOpacity = 1000]

ReturnStep(c, dt) ==
    LET timer == c.trailTimer + dt
        easeInOut == EaseInOut(Frac(timer, ReturnDuration))
    IN  IF timer >= ReturnDuration
        THEN Returned(c)
        ELSE [c EXCEPT !.trailTimer = timer,
                       !.currentRotationAngle =
                           RDiv(c.maxRotationAngle * (1000 - easeInOut), 1000),
                       !.currentOffset = RDiv(c.currentOffset * (1000 - easeInOut), 1000),
                       !.targetOpacity =
                           c.currentOpacity
                           + RDiv((1000 - c.currentOpacity) * easeInOut, 1000)]

\* the opacity easing of the normal branch: toward the target at 2.0 per second
OpacityStep(current, target, dt) ==
    current + Sign(target - current) * Min(Abs(target - current), RDiv(2000 * dt, 3000))

\* the normal branch once the flip delay has passed
SpringStep(c, dt) ==
    LET rotDiff == c.targetFlipProgress - c.flipProgress
        rotates == Abs(rotDiff) > 10
        flip == IF rotates
                THEN c.flipProgress
                     + Sign(rotDiff) * Min(Abs(rotDiff), RDiv(1000 * dt, FlipDuration))
                ELSE c.flipProgress
        offsetDiff == c.targetOffset - c.currentOffset
        springs == Abs(offsetDiff) > 10
        \* (k * diff - c * v) * deltaTime
        velocity == c.offsetVelocity
                    + RDiv((10 * SpringStiffness * offsetDiff
                            - DampingTenths * c.offsetVelocity) * dt, 10 * 3000)
        opacityDiff == c.targetOpacity - c.currentOpacity
        fades == Abs(opacityDiff) > 5
    IN  [c EXCEPT !.flipProgress = flip,
                  !.currentRotationAngle = IF rotates THEN flip ELSE c.currentRotationAngle,
                  !.offsetVelocity = IF springs THEN velocity ELSE 0,
                  !.currentOffset = IF springs THEN c.currentOffset + RDiv(velocity * dt, 3000)
                                    ELSE c.currentOffset,
                  !.delayTimer = IF springs THEN c.delayTimer ELSE 0,
                  !.currentOpacity = IF fades
                                     THEN OpacityStep(c.currentOpacity, c.targetOpacity, dt)
                                     ELSE c.currentOpacity,
                  !.targetOpacity = IF ~fades /\ c.targetFlipProgress = 0 /\ c.targetOffset = 0
                                    THEN 1000 ELSE c.targetOpacity]

\* needsUpdate of the normal branch
SpringNeedsUpdate(c) ==
    \/ Abs(c.targetFlipProgress - c.flipProgress) > 10
    \/ Abs(c.targetOffset - c.currentOffset) > 10
    \/ Abs(c.targetOpacity - c.currentOpacity) > 5

\* "apply all transforms": the mesh follows the record, and flipProgress is
\* recomputed as currentRotationAngle / PI
ApplyTransforms(c) == [c EXCEPT !.flipProgress = c.currentRotationAngle]

\* the flip delay counted on by one frame
Delayed(c, dt) == [c EXCEPT !.delayTimer = Min(c.delayTimer + dt, MaxFlipDelay)]

\* the branch of updateCubeAnimations the cell takes, before "apply all transforms"
StepCube(c, dt) ==
    IF c.isExploding THEN ExplodeStep(c, dt)
    ELSE IF c.isInTrail THEN TrailStep(c, dt)
    ELSE IF c.isInReturn THEN ReturnStep(c, dt)
    ELSE \* delayTimer grows without bound in the source while the spring moves; it is
         \* only compared with flipDelay < MaxFlipDelay, so it saturates there
         IF c.flipDelay > 0
         THEN IF Delayed(c, dt).delayTimer < c.flipDelay
              THEN Delayed(c, dt)
              ELSE SpringStep(Delayed(c, dt), dt)
         ELSE SpringStep(c, dt)

\* needsUpdate at the end of the cell's branch
needsUpdate(c, dt) ==
    IF c.isExploding THEN c.explodeTimer + dt < ExplodeDuration
    ELSE IF c.isInTrail THEN c.trailTimer + dt < TrailDuration
    ELSE IF c.isInReturn THEN TRUE
    ELSE IF c.flipDelay > 0
         THEN /\ Delayed(c, dt).delayTimer >= c.flipDelay
              /\ SpringNeedsUpdate(Delayed(c, dt))
         ELSE SpringNeedsUpdate(c)

UpdateCube(c, dt) ==
    IF needsUpdate(c, dt) THEN ApplyTransforms(StepCube(c, dt)) ELSE StepCube(c, dt)

----------------------------------------------------------------------------
(* The sphere's geometry.  Lengths are in 1/10000 scene units, sines in      *)
(* 1/1000; cell counts are the integers of the source.                       *)

CubesPerRing == 20           \* SPHERE_CONFIG.cubesPerRing
Rings == 30                  \* SPHERE_CONFIG.rings
PolarCubes == 10             \* the cells of ring 0 and of the last ring
MinNearPolarCubes == 12      \* the least number of cells of the rings next to them
MinOtherCubes == 14          \* the least number of cells of every other ring
MinRadius == 4750            \* 0.475: the least radius calculateSphereSize returns
RadiusScale == 18588         \* 1.8588 = (2 * 3 * tan(37.5 deg) / 2) * 0.8075
ReservedHeight == 120        \* 80 px below the title and 40 px of bottom margin
TwoPi == 6283                \* 2 PI, in 1/1000
NearPolarPitch == 2736000    \* cubeSize * cubeOverlap * 0.8 = 0.02736, in 1/100000000
OtherPitch == 3078000        \* cubeSize * cubeOverlap * 0.9 = 0.03078, in 1/100000000
BaseHeight == 900            \* the viewport height of the other specifications

\* the viewport heights tried
MinHeight == 140
MaxHeight == 2400
HeightStep == 20
Heights == {h \in MinHeight .. MaxHeight : h % HeightStep = 0}

\* calculateSphereSize
calculateSphereSize(height) ==
    Max(RDiv(RadiusScale * (height - ReservedHeight), height), MinRadius)

\* phi = (ring + 0.5) * ringSpacing with ringSpacing = PI / (rings + 1), in PI/1000
Phi(ring) == RDiv(1000 * (2 * ring + 1), 2 * (Rings + 1))

\* the circumference of a ring, in 1/100000000 scene units
Circumference(ring, radius) ==
    LET phi == Phi(ring)
        ringRadius == SinPi(phi) * radius
    IN  TwoPi * RDiv(ringRadius, 100)

\* cubesInThisRing of generateCubePositions
CubesInRing(ring, radius) ==
    IF ring = 0 \/ ring = Rings - 1
    THEN PolarCubes
    ELSE IF ring < 3 \/ ring > Rings - 4
    THEN Max(MinNearPolarCubes, Circumference(ring, radius) \div NearPolarPitch)
    ELSE Max(MinOtherCubes, Circumference(ring, radius) \div OtherPitch)

\* generateCubePositions: the number of cells of each ring, ring 0 first
generateCubePositions(radius) == [i \in 1 .. Rings |-> CubesInRing(i - 1, radius)]

\* the sphere variables after initCubeSphere(calculateSphereSize(), ...) in a
\* window of the given height
SphereBuilt(height) ==
    /\ viewportHeight = height
    /\ sphereRadius = calculateSphereSize(height)
    /\ ringCells = generateCubePositions(calculateSphereSize(height))
    /\ ringPhi = [i \in 1 .. Rings |-> Phi(i - 1)]

----------------------------------------------------------------------------
(* Pointer speed *)

RECURSIVE SumSeq(_)
SumSeq(h) == IF h = <<>> THEN 0 ELSE Head(h) + SumSeq(Tail(h))

\* calculateMouseSpeed: the history after pushing a sample, keeping the last 5
PushSample(h, speed) ==
    LET h1 == Append(h, speed) IN IF Len(h1) > HistoryLen THEN Tail(h1) ELSE h1

\* calculateMouseSpeed: the average of the history
AvgSpeed(h) == SumSeq(h) \div Len(h)

----------------------------------------------------------------------------
(* The video pool: data *)

\* delays of the timers that restart a load, in ms
RetryDelay == 1000
NextDelay == 100

\* the delay of the timer that started a load, for the loads that retry
DelayOf(kind) == IF kind = "retry" THEN RetryDelay ELSE NextDelay

\* bounds of a run of the pool specification
MaxMedia == 2
MaxDirect == 3
MaxClicks == 2

\* "no identifier": a null ref, and the placeholder material of createFallbackSphere
NoId == 0
Placeholder == -1

MediaIds == 1 .. numMedia

\* the errors a load attempt can end with: one with a MediaError that handleError
\* of loadAndApplyTexture blacklists (code 3 or 4 with networkState 3), and any
\* other (a network error, a timeout)
ErrorKinds == {"transient", "fatal"}

\* how a load attempt ends when its own timer ends it: handleError finds no
\* MediaError on the element, which is the case it does not blacklist
TimedOut == "transient"

\* no entry for an identifier in videoPoolRef
NoEntry ==
    [present |-> FALSE, isReady |-> FALSE, isLoading |-> FALSE, texture |-> FALSE,
     srcCleared |-> FALSE, playing |-> FALSE, onLoaded |-> FALSE, onError |-> FALSE,
     timeout |-> FALSE]

\* preloadVideo: the entry it stores, with the element's once-listeners and the
\* 8 s timer armed
NewEntry ==
    [present |-> TRUE, isReady |-> FALSE, isLoading |-> TRUE, texture |-> FALSE,
     srcCleared |-> FALSE, playing |-> FALSE, onLoaded |-> TRUE, onError |-> TRUE,
     timeout |-> TRUE]

\* loadAndApplyTexture: the element it creates, with its listeners and its 5 s
\* timer armed; a 200 ms timer sets its src. cause and again record who called:
\* again marks a load of the identifier whose failure scheduled it
NewDirect(id, cause, again) ==
    [id |-> id, cause |-> cause, again |-> again, srcCleared |-> FALSE,
     armed |-> TRUE, playing |-> FALSE, texture |-> FALSE]

NoElement == [kind |-> "none", ref |-> NoId]
DirectElement(i) == [kind |-> "direct", ref |-> i]
PoolElement(id) == [kind |-> "pool", ref |-> id]

\* handleError of loadAndApplyTexture on an element record, had it left the
\* listeners and the 5 s timer in place
StillArmed(e) == e

\* handleError of loadAndApplyTexture on an element record:
\* cleanupEventListeners and clearTimeout(timeoutId)
Disarmed(e) == [e EXCEPT !.armed = FALSE]

\* cleanupVideo on an element record: pause, src = '', load()
CleanedUp(e) == [e EXCEPT !.playing = FALSE, !.srcCleared = TRUE]

\* cleanupCurrentVideo: the direct elements afterwards. An element cleaned up
\* within 200 ms of its creation gets its src from the timer afterwards
\* (late), and fetches it
CleanupDirects(ds, el, late) ==
    IF el.kind = "direct"
    THEN [ds EXCEPT ![el.ref] = IF late THEN [@ EXCEPT !.playing = FALSE]
                                ELSE CleanedUp(@)]
    ELSE ds

\* whether the element that cleanupCurrentVideo cleans may still be waiting
\* for its src timer
LateChoices(ds, el) ==
    IF el.kind = "direct" /\ ds[el.ref].armed /\ ~ds[el.ref].srcCleared
    THEN BOOLEAN ELSE {FALSE}

\* cleanupCurrentVideo: the pool afterwards (the main element is a pooled one
\* after an instant switch)
CleanupPool(pl, el) ==
    IF el.kind = "pool" THEN [pl EXCEPT ![el.ref] = CleanedUp(@)] ELSE pl

\* videoElementRef.current.pause() of instantSwitchVideo
PauseDirects(ds, el) ==
    IF el.kind = "direct" THEN [ds EXCEPT ![el.ref].playing = FALSE] ELSE ds

PausePool(pl, el) ==
    IF el.kind = "pool" THEN [pl EXCEPT ![el.ref].playing = FALSE] ELSE pl

ReadyVideos(pl) == {id \in MediaIds : pl[id].present /\ pl[id].isReady}

Available(failed) == MediaIds \ failed

\* a load of id is in flight: an element is fetching it and its completion
\* handler is still attached
PreloadInFlight(id) == videoPool[id].present /\ videoPool[id].isLoading

DirectInFlight(i) == directs[i].armed /\ ~directs[i].srcCleared

InFlight(id) ==
    {i \in 1 .. Len(directs) : directs[i].id = id /\ DirectInFlight(i)}

\* the log of the first three attempts of each identifier, after one more ended
Logged(log, id, what) ==
    IF Len(log[id]) < 3 THEN [log EXCEPT ![id] = Append(@, what)] ELSE log

NoSwitch ==
    [kind |-> "none", target |-> NoId, before |-> NoId, ready |-> 0, cleared |-> FALSE]

\* handleClick: the blacklist when a click leaves it as it is
KeptBlacklist(failed) == failed

\* handleClick: the blacklist after its first step, which empties it when it
\* holds every video
ClearedBlacklist(failed) == IF Available(failed) = {} THEN {} ELSE failed

\* handleLoadedData of preloadVideo on an entry, had it left isLoading as it was
ReadyEntryStillLoading(e) ==
    [e EXCEPT !.texture = TRUE, !.isReady = TRUE, !.onLoaded = FALSE, !.timeout = FALSE]

\* handleLoadedData of preloadVideo on an entry
ReadyEntry(e) ==
    [e EXCEPT !.texture = TRUE, !.isReady = TRUE, !.isLoading = FALSE,
              !.onLoaded = FALSE, !.timeout = FALSE]

\* the pool variables of a page without media
NoMedia ==
    /\ numMedia = 0
    /\ videoPool = [id \in {} |-> NoEntry]
    /\ failedVideos = {}
    /\ preloadQueue = <<>>
    /\ preloadCalls = [id \in {} |-> "waiting"]
    /\ isPreloading = FALSE
    /\ directs = <<>>
    /\ videoElement = NoElement
    /\ currentVideoPath = NoId
    /\ currentMediaIndex = NoId
    /\ effectPending = "none"
    /\ timers = {}
    /\ forcedTimer = FALSE
    /\ cubeGroup = TRUE
    /\ cubesData = TRUE
    /\ displayed = Placeholder
    /\ switchWindow = FALSE
    /\ burst = 0
    /\ outcomes = [id \in {} |-> <<>>]
    /\ everLoaded = {}
    /\ retries = [id \in {} |-> <<>>]
    /\ lastSwitch = NoSwitch
    /\ sphereBuilds = 1
    /\ clicks = 0

----------------------------------------------------------------------------
(* Texture updates.  Lengths are in 1/1000 scene units, scores and cosines   *)
(* in 1/1000.  A cell enters the priority through the cosine of the angle    *)
(* between its outward normal and the direction of the camera, both taken in *)
(* the coordinates of the cube group: every cell lies at the sphere's radius *)
(* from the group's origin and the camera at cameraDistance from it.         *)

BatchSize == 25              \* batchSize
CameraDistance == 3000       \* camera.position.z = 3

\* the greatest r in lo .. hi with r * r <= n
RECURSIVE RootIn(_, _, _)
RootIn(n, lo, hi) ==
    IF lo >= hi THEN lo
    ELSE LET mid == (lo + hi + 1) \div 2
         IN  IF mid * mid <= n THEN RootIn(n, mid, hi) ELSE RootIn(n, lo, mid - 1)

\* Math.sqrt on the model's grid
Sqrt(n) ==
    LET floor == RootIn(n, 0, 2 * CameraDistance)
    IN  IF n - floor * floor > floor THEN floor + 1 ELSE floor

\* distanceToCamera of a cell at `radius` whose normal makes the angle of
\* `cosine` with the camera's direction (the law of cosines)
distanceToCamera(cosine, radius) ==
    Sqrt(radius * radius + CameraDistance * CameraDistance
         - RDiv(2 * radius * CameraDistance, 1000) * cosine)

\* facingDot: the cell's normal times the unit vector from the cell to the camera
facingDot(cosine, radius) ==
    LET along == RDiv(CameraDistance * cosine, 1000) - radius
        distance == distanceToCamera(cosine, radius)
    IN  Sign(along) * RDiv(Abs(along) * 1000, distance)

\* priority: 0.7 facingScore + 0.3 distanceScore
priority(cosine, radius) ==
    LET facingScore == Max(0, facingDot(cosine, radius))
        distanceScore == RDiv(2000 * 1000, 2000 + distanceToCamera(cosine, radius))
    IN  RDiv(7 * facingScore + 3 * distanceScore, 10)

\* cubesWithPriority.sort((a, b) => a.priority - b.priority), ascending
RECURSIVE SortedAscending(_, _)
SortedAscending(score, cells) ==
    IF cells = {} THEN <<>>
    ELSE LET first == CHOOSE c \in cells :
                          \A d \in cells : score[c] < score[d] \/ (score[c] = score[d] /\ c <= d)
         IN  <<first>> \o SortedAscending(score, cells \ {first})

\* cubesWithPriority.sort((a, b) => b.priority - a.priority): descending, and
\* stable, so cells of equal priority keep the order of cubesData
RECURSIVE Sorted(_, _)
Sorted(score, cells) ==
    IF cells = {} THEN <<>>
    ELSE LET first == CHOOSE c \in cells :
                          \A d \in cells : score[c] > score[d] \/ (score[c] = score[d] /\ c <= d)
         IN  <<first>> \o Sorted(score, cells \ {first})

\* endIndex of processBatch for a batch that takes every cell left
BatchEndAll(currentIndex, totalCubes) == totalCubes

\* endIndex of processBatch
BatchEnd(currentIndex, totalCubes) == Min(currentIndex + BatchSize, totalCubes)

\* no updateCubeTextures call has been made
NoRun ==
    [texture |-> NoId, priority |-> <<>>, order |-> <<>>, currentIndex |-> 0,
     batches |-> 0, requested |-> FALSE, earlier |-> <<>>]

----------------------------------------------------------------------------
(* The page around the sphere: component HomePage *)

\* no wheel listener is attached to the sphere's container
NoListener == "none"

\* no wheel event has come
NoWheel == [deltaY |-> 0, overlay |-> TRUE, locked |-> FALSE, timers |-> 0]

\* currentSrc of LazyMedia: null, the URL of src, or that URL with ?retry=n (n)
NoSrc == -1
BaseSrc == 0

\* retryLoad: the most automatic retries, and the delay of the first in ms
MaxRetries == 2
RetryStep == 1000

\* LazyMedia before the page renders it (kind "none"), with the initial values
\* of its state
NewLazy ==
    [kind |-> "none",            \* props: an "image", a "video", or a video with
                                 \* previewSrc ("preview")
     custom |-> FALSE,           \* props: placeholder is given
     isLoaded |-> FALSE,
     isInView |-> FALSE,
     hasError |-> FALSE,
     isLoading |-> FALSE,
     previewLoaded |-> FALSE,
     videoLoaded |-> FALSE,
     showPreview |-> TRUE,
     retryCount |-> 0,
     currentSrc |-> NoSrc,
     fetching |-> FALSE,         \* the media element is fetching currentSrc
     previewFetching |-> FALSE,  \* the preview img is fetching previewSrc
     retryTimers |-> {},         \* pending timers of retryLoad: the n of ?retry=n
                                 \* and the delay in ms
     hideTimer |-> FALSE,        \* the 1 s timer of handleVideoLoad is pending
     failures |-> 0,             \* history: errors of the media element since it
                                 \* last loaded
     retried |-> <<>>]           \* history: the delays of the retries issued since then

\* retryLoad on the state l
retryLoad(l) ==
    IF l.retryCount < MaxRetries
    THEN [l EXCEPT !.retryCount = @ + 1,
                   !.hasError = FALSE,
                   !.isLoading = TRUE,
                   !.retryTimers = @ \cup {[n |-> l.retryCount + 1,
                                            delay |-> RetryStep * (l.retryCount + 1)]}]
    ELSE [l EXCEPT !.hasError = TRUE, !.isLoading = FALSE]

\* the first child of the render: renderPlaceholder() is called
PlaceholderRendered(l) ==
    \/ l.isInView /\ l.isLoading /\ ~l.isLoaded /\ ~l.previewLoaded /\ ~l.videoLoaded
    \/ ~l.isInView

\* renderPlaceholder shows the branch with the retry button
RetryButtonShown(l) ==
    PlaceholderRendered(l) /\ ~l.custom /\ ~l.isLoading /\ l.hasError

\* HomePage after its first render and its effects: the overlay is shown and
\* the 800 ms timer runs; the wheel effect has attached nothing
NewPage ==
    [rendered |-> TRUE,          \* the page is rendered (activeTab is 'home')
     isLoading |-> TRUE,         \* the state isLoading
     isScrolling |-> FALSE,      \* the state isScrolling
     overlay |-> TRUE,           \* the committed render shows LoadingSpinner
     renderDue |-> FALSE,        \* a state has changed since the committed render
     listener |-> NoListener,    \* the attached handleWheel: "free" or "locked", by the
                                 \* isScrolling it closes over
     loadingTimer |-> TRUE,      \* the 800 ms timer is pending
     scrollTimeout |-> FALSE,    \* the 1000 ms timer of the wheel effect is pending
     advanceTimers |-> 0,        \* pending 200 ms timers
     advances |-> 0,             \* history: setActiveTab('inspiration') calls
     wheels |-> 0,               \* history: wheel events over the container
     lastWheel |-> NoWheel]      \* history: the last wheel event and what it found

\* the handler the wheel effect attaches for the state it runs with: none
\* while loading, else handleWheel closed over isScrolling
Attached(page) ==
    IF page.isLoading THEN NoListener
    ELSE IF page.isScrolling THEN "locked" ELSE "free"

----------------------------------------------------------------------------
(* The cell specification: handlers of the canvas and the frame callback *)

FullOpacity == 1000          \* opacity 1.0 of yellowMaterials and of a textured front
FallbackOpacity == 900       \* opacity 0.9 of createFallbackSphere's material

\* mouseRef.current.x and .y before any press
PointerHome == <<0, 0>>

\* rotationRef after a drag by delta that counts every pixel twice
TurnedTwice(rotation, delta) ==
    [x |-> rotation.x + 2 * delta[2], y |-> rotation.y + 2 * delta[1]]

\* rotationRef after a drag by delta = <<deltaX, deltaY>>:
\* rotation.y += deltaX * 0.01, rotation.x += deltaY * 0.01
Turned(rotation, delta) ==
    [x |-> rotation.x + delta[2], y |-> rotation.y + delta[1]]

\* the mount effect has run: the listeners are attached and animate() has
\* rendered the first frame and asked for the next
\* ... over a sphere of cubeCount cells whose fronts map the texture of `shown`
MountedOver(cubeCount, shown) ==
    /\ mounted = TRUE
    /\ rafPending = 1
    /\ mouseAt = PointerHome
    /\ pointerAt = PointerHome
    /\ dragRotation = [x |-> 0, y |-> 0]
    /\ frontOpacity = [c \in Cells |-> FallbackOpacity]
    /\ sideOpacity = FullOpacity
    /\ numCubes = cubeCount
    /\ frontTexture = [c \in 1 .. cubeCount |-> shown]
    /\ textureRun = NoRun
    /\ updated = <<>>
    /\ lastStep = [deltaTime |-> StallTime, actualDeltaTime |-> MaxStep]
    /\ homePage = NewPage
    /\ lazyMedia = NewLazy

Mounted == MountedOver(Cardinality(Cells), NoId)

\* frame time after which the claim about Active cells expects a cell to be Idle
SettleTime == TrailDuration + ReturnDuration

\* where the clock of frame time since a cell's last activation stops counting
ClockCap == SettleTime + MaxStep

\* the cell variables of a sphere nobody points at
CellAtRest ==
    /\ cubes = [c \in Cells |-> NewCube]
    /\ isDown = FALSE
    /\ history = <<>>
    /\ currentSpeed = 0
    /\ sinceMouse = MouseThrottle
    /\ sinceFrame = IdleInterval
    /\ sinceAct = [c \in Cells |-> ClockCap]
    /\ rafGap \in RafGaps
    /\ frames = 0
    /\ moves = 0
    /\ SphereBuilt(BaseHeight)
    /\ Mounted

\* a built sphere with every cell at rest, on a page without media
InitCell == CellAtRest /\ NoMedia

\* handleMouseDown for a press at `at`
handleMouseDown(at) ==
    /\ mounted
    /\ isDown' = TRUE
    /\ mouseAt' = at
    /\ pointerAt' = at
    /\ UNCHANGED <<cubes, history, currentSpeed, sinceMouse, sinceFrame, sinceAct,
                   rafGap, frames, moves, sphereVars, lifeVars, dragRotation, faceVars,
                   textureVars, lastStep, homePage, lazyMedia, poolVars>>

handleMouseUp ==
    /\ mounted
    /\ isDown' = FALSE
    /\ UNCHANGED <<cubes, history, currentSpeed, sinceMouse, sinceFrame, sinceAct,
                   rafGap, frames, moves, sphereVars, lifeVars, dragVars, faceVars,
                   textureVars, lastStep, homePage, lazyMedia, poolVars>>

\* handleMouseMove for a pointer move to `at` whose speed sample is `speed`,
\* whose ray hits the helper sphere or not, at distance dist[c] of each cell
handleMouseMove(speed, hit, dist, at) ==
    /\ mounted
    /\ pointerAt' = at
    /\ IF sinceMouse < MouseThrottle
       THEN UNCHANGED <<cubes, isDown, history, currentSpeed, sinceMouse, sinceFrame,
                        sinceAct, rafGap, frames, moves, sphereVars, lifeVars,
                        mouseAt, dragRotation, faceVars, textureVars, lastStep, homePage, lazyMedia,
                        poolVars>>
       ELSE LET h == PushSample(history, speed)
                mouseSpeed == AvgSpeed(h)
                delta == <<at[1] - mouseAt[1], at[2] - mouseAt[2]>>
            IN  /\ moves < MaxMoves
                /\ moves' = moves + 1
                /\ sinceMouse' = 0
                /\ history' = h
                /\ currentSpeed' = mouseSpeed
                /\ IF isDown /\ cubeGroup
                   THEN /\ dragRotation' = Turned(dragRotation, delta)
                        /\ mouseAt' = at
                   ELSE UNCHANGED <<dragRotation, mouseAt>>
                /\ cubes' = IF isDown THEN cubes
                            ELSE IF hit
                            THEN [c \in Cells |-> FlipCube(cubes[c], dist[c], mouseSpeed)]
                            ELSE [c \in Cells |-> ResetCube(cubes[c])]
                /\ sinceAct' = IF ~isDown /\ hit
                               THEN [c \in Cells |->
                                        IF dist[c] < FlipRadius THEN 0 ELSE sinceAct[c]]
                               ELSE sinceAct
                /\ UNCHANGED <<isDown, sinceFrame, rafGap, frames, sphereVars, lifeVars,
                               faceVars, textureVars, lastStep, homePage, lazyMedia, poolVars>>

\* "apply opacity" of updateCubeAnimations: material.forEach writes the cell's
\* currentOpacity to each of the six materials of its mesh. The front material
\* is the cell's own
FrontPainted(dt) ==
    [c \in Cells |-> IF needsUpdate(cubes[c], dt)
                     THEN UpdateCube(cubes[c], dt).currentOpacity
                     ELSE frontOpacity[c]]

\* ... and the other five are yellowMaterials, the same objects for every cell:
\* of the cells a frame applies, in the order of cubesData, the last one's
\* opacity stays on them
SidePainted(dt) ==
    LET applied == {c \in Cells : needsUpdate(cubes[c], dt)}
        last == CHOOSE c \in applied : \A d \in applied : d <= c
    IN  IF applied = {} THEN sideOpacity
        ELSE UpdateCube(cubes[last], dt).currentOpacity

\* the frame requests pending after an animate that asks for no next frame
RescheduledNever(requests) == rafPending - 1

\* the frame requests pending after animate has made `requests` of them
Rescheduled(requests) == rafPending - 1 + requests

\* actualDeltaTime, had it no upper limit
UnclampedStep(deltaTime) == deltaTime

\* actualDeltaTime: Math.min(deltaTime / 1000, 0.033)
ClampedStep(deltaTime) == Min(deltaTime, MaxStep)

\* frameInterval for every button state, had it the targetFPS of a released button
frameIntervalIdle(down) == IdleInterval

\* frameInterval: 1000 / targetFPS
frameInterval(down) == IF down THEN DragInterval ELSE IdleInterval

\* animate, called back one refresh period after the previous callback. The
\* renderer, the scene and the camera are set from the mount effect on and
\* never unset, so the callback does not return at its first line
animate ==
    LET gap == rafGap
        deltaTime == sinceFrame + gap
        actualDeltaTime == ClampedStep(deltaTime)
    IN  /\ rafPending > 0
        /\ rafPending' = Rescheduled(1)
        /\ sinceMouse' = Min(sinceMouse + gap, MouseThrottle)
        /\ IF deltaTime < frameInterval(isDown)
           THEN /\ sinceFrame' = deltaTime
                /\ UNCHANGED <<cubes, sinceAct, frames, faceVars, lastStep>>
           ELSE /\ frames < MaxFrames
                /\ frames' = frames + 1
                /\ sinceFrame' = 0
                /\ lastStep' = [deltaTime |-> Min(deltaTime, StallTime),
                                 actualDeltaTime |-> actualDeltaTime]
                /\ cubes' = [c \in Cells |-> UpdateCube(cubes[c], actualDeltaTime)]
                /\ frontOpacity' = FrontPainted(actualDeltaTime)
                /\ sideOpacity' = SidePainted(actualDeltaTime)
                /\ sinceAct' = [c \in Cells |->
                                   Min(sinceAct[c] + actualDeltaTime, ClockCap)]
        /\ UNCHANGED <<isDown, history, currentSpeed, rafGap, moves, sphereVars, mounted,
                       dragVars, textureVars, homePage, lazyMedia, poolVars>>

NextCell ==
    \/ handleMouseDown(PointerHome)
    \/ handleMouseUp
    \/ \E speed \in SpeedSamples, hit \in BOOLEAN, dist \in [Cells -> HitDistances] :
           handleMouseMove(speed, hit, dist, PointerHome)
    \/ animate

SpecCell == InitCell /\ [][NextCell]_vars

----------------------------------------------------------------------------
(* The burst specification: a 60 Hz display and a pointer that only moves    *)
(* fast.  Frames are rendered every second callback with the clamped step    *)
(* while the button is up and every callback with a 1000/60 ms step while it *)
(* is down, so a run mixes the two steps.                                    *)

\* the speed samples above the explode threshold
FastSamples == {s \in SpeedSamples : s > MouseSpeedThreshold}

InitBurst ==
    /\ cubes = [c \in Cells |-> NewCube]
    /\ isDown = FALSE
    /\ history = <<>>
    /\ currentSpeed = 0
    /\ sinceMouse = MouseThrottle
    /\ sinceFrame = IdleInterval
    /\ sinceAct = [c \in Cells |-> ClockCap]
    /\ rafGap = DragInterval
    /\ frames = 0
    /\ moves = 0
    /\ SphereBuilt(BaseHeight)
    /\ Mounted
    /\ NoMedia

NextBurst ==
    \/ handleMouseDown(PointerHome)
    \/ handleMouseUp
    \/ \E speed \in FastSamples, hit \in BOOLEAN, dist \in [Cells -> HitDistances] :
           handleMouseMove(speed, hit, dist, PointerHome)
    \/ animate

SpecBurst == InitBurst /\ [][NextBurst]_vars

----------------------------------------------------------------------------
(* The drag specification: presses, releases and moves of a pointer that     *)
(* visits a few places, over a built sphere                                  *)

\* the places of the pointer, in px
Positions == {<<0, 0>>, <<3, 0>>, <<3, 4>>}

\* the speed samples that start no explosion
SlowSamples == SpeedSamples \ FastSamples

InitDrag == CellAtRest /\ NoMedia

\* the button is pressed while it is up
press(at) == ~isDown /\ handleMouseDown(at)

NextDrag ==
    \/ \E at \in Positions : press(at)
    \/ handleMouseUp
    \/ \E speed \in SlowSamples, hit \in BOOLEAN, dist \in [Cells -> HitDistances],
          at \in Positions : handleMouseMove(speed, hit, dist, at)
    \/ animate

SpecDrag == InitDrag /\ [][NextDrag]_vars

----------------------------------------------------------------------------
(* The pool specification: the mount effect has run with a media list of
   numMedia videos; what follows are the timers it set, the media events of
   the elements, the currentMediaIndex effect and the clicks *)

\* the state after the mount effect: preloadVideos has queued every video,
\* selectedVideo is recorded, its 100 ms load timer and the 5 s forced-fallback
\* timer are pending, and the state updates make the index effect due
PoolMounted ==
    /\ numMedia \in 1 .. MaxMedia
    /\ videoPool = [id \in MediaIds |-> NoEntry]
    /\ failedVideos = {}
    /\ preloadQueue = [i \in MediaIds |-> i]
    /\ preloadCalls = [id \in MediaIds |-> "waiting"]
    /\ isPreloading = TRUE
    /\ directs = <<>>
    /\ videoElement = NoElement
    /\ \E selectedVideo \in MediaIds :
           /\ currentVideoPath = selectedVideo
           /\ currentMediaIndex = selectedVideo
           /\ timers = {[kind |-> "initial", id |-> selectedVideo, by |-> 0,
                        again |-> FALSE]}
    /\ effectPending = "mount"
    /\ forcedTimer = TRUE
    /\ cubeGroup = FALSE
    /\ cubesData = FALSE
    /\ displayed = NoId
    /\ switchWindow = FALSE
    /\ burst = 0
    /\ outcomes = [id \in MediaIds |-> <<>>]
    /\ everLoaded = {}
    /\ retries = [id \in MediaIds |-> <<>>]
    /\ lastSwitch = NoSwitch
    /\ sphereBuilds = 0
    /\ clicks = 0

InitPool == CellAtRest /\ PoolMounted

\* the timers that the mount effect set for the first 200 ms have fired: the
\* 100 ms load timer and the staggered preload timers. No element has a src
\* before the first of them, so no media event comes earlier
StartupDone ==
    /\ \A t \in timers : t.kind # "initial"
    /\ \A k \in DOMAIN preloadCalls : preloadCalls[k] # "waiting"

\* loadAndApplyTexture(id) on directs ds and pool pl: cleanupCurrentVideo, then a
\* new element that becomes the main one. A load started by the 100 ms timer
\* of the mount effect finds any main element younger than 200 ms
Load(id, cause, again, ds, pl) ==
    /\ Len(ds) < MaxDirect
    /\ \E late \in LateChoices(ds, videoElement) :
           /\ (cause = "initial" /\ TRUE \in LateChoices(ds, videoElement)) => late
           /\ directs' = Append(CleanupDirects(ds, videoElement, late),
                                NewDirect(id, cause, again))
    /\ videoPool' = CleanupPool(pl, videoElement)
    /\ videoElement' = DirectElement(Len(ds) + 1)

\* createFallbackSphere: initCubeSphere with the placeholder material
Fallback ==
    /\ cubeGroup' = TRUE
    /\ cubesData' = TRUE
    /\ displayed' = Placeholder
    /\ sphereBuilds' = sphereBuilds + 1

\* a texture is applied: initCubeSphere if there is no sphere, else
\* updateCubeTextures, which returns at once when there are no cells
ApplyTexture(id) ==
    IF ~cubeGroup
    THEN /\ cubeGroup' = TRUE
         /\ cubesData' = TRUE
         /\ displayed' = id
         /\ sphereBuilds' = sphereBuilds + 1
    ELSE /\ displayed' = IF cubesData THEN id ELSE displayed
         /\ UNCHANGED <<cubeGroup, cubesData, sphereBuilds>>

\* the currentMediaIndex effect
RunEffect ==
    /\ effectPending # "none"
    /\ effectPending' = "none"
    /\ Load(currentMediaIndex, effectPending, FALSE, directs, videoPool)
    /\ UNCHANGED <<numMedia, failedVideos, preloadQueue, preloadCalls, isPreloading,
                   currentVideoPath, currentMediaIndex, timers, forcedTimer, cubeGroup, cubesData,
                   displayed, switchWindow, burst, outcomes, retries, lastSwitch,
                   sphereBuilds, clicks, everLoaded,
                   cellVars>>

\* a timer set by the mount effect or by handleError calls loadAndApplyTexture
LoadTimer(t) ==
    /\ effectPending = "none"
    /\ t \in timers
    /\ IF t.kind = "initial"
       THEN \A k \in DOMAIN preloadCalls : preloadCalls[k] = "waiting" => k > 1
       ELSE StartupDone
    /\ timers' = timers \ {t}
    /\ Load(t.id, t.kind, t.again, directs, videoPool)
    /\ UNCHANGED <<numMedia, failedVideos, preloadQueue, preloadCalls, isPreloading,
                   currentVideoPath, currentMediaIndex, effectPending, forcedTimer,
                   cubeGroup, cubesData, displayed, switchWindow, burst, outcomes, retries,
                   lastSwitch, sphereBuilds, clicks, everLoaded,
                   cellVars>>

\* loadeddata on a direct element: handleLoadedData of loadAndApplyTexture
DirectLoaded(i) ==
    /\ effectPending = "none" /\ StartupDone
    /\ directs[i].armed /\ ~directs[i].srcCleared
    /\ directs' = [directs EXCEPT ![i].armed = FALSE, ![i].texture = TRUE,
                                  ![i].playing = TRUE]
    /\ ApplyTexture(directs[i].id)
    /\ outcomes' = Logged(outcomes, directs[i].id, "ok")
    /\ everLoaded' = everLoaded \cup {directs[i].id}
    /\ UNCHANGED <<numMedia, videoPool, failedVideos, preloadQueue, preloadCalls,
                   isPreloading, videoElement, currentVideoPath, currentMediaIndex,
                   effectPending, timers, forcedTimer, switchWindow, burst, retries,
                   lastSwitch, clicks, cellVars>>

\* handleError of loadAndApplyTexture for element i, which ended with `what`
DirectFailed(i, what) ==
    LET id == directs[i].id
        failed == IF what = "fatal" THEN failedVideos \cup {id} ELSE failedVideos
        remainingVideos == MediaIds \ failed
    IN  /\ directs' = [directs EXCEPT ![i] = Disarmed(@)]
        /\ failedVideos' = failed
        /\ outcomes' = Logged(outcomes, id, what)
        /\ IF numMedia = 1
           THEN /\ timers' = timers \cup {[kind |-> "retry", id |-> id, by |-> i,
                                           again |-> TRUE]}
                /\ retries' = [retries EXCEPT ![id] = Append(@, RetryDelay)]
                /\ UNCHANGED <<cubeGroup, cubesData, displayed, sphereBuilds>>
           ELSE IF remainingVideos # {}
           THEN /\ \E nextVideo \in remainingVideos :
                       /\ timers' = timers \cup
                                      {[kind |-> "next", id |-> nextVideo, by |-> i,
                                        again |-> nextVideo = id]}
                       /\ retries' = IF nextVideo = id
                                     THEN [retries EXCEPT ![id] = Append(@, NextDelay)]
                                     ELSE retries
                /\ UNCHANGED <<cubeGroup, cubesData, displayed, sphereBuilds>>
           ELSE /\ Fallback
                /\ UNCHANGED <<timers, retries>>
        /\ UNCHANGED <<numMedia, videoPool, preloadQueue, preloadCalls, isPreloading,
                       videoElement, currentVideoPath, currentMediaIndex, effectPending,
                       forcedTimer, switchWindow, burst, lastSwitch, clicks, everLoaded,
                   cellVars>>

\* an error event on a direct element; an element whose src was emptied by
\* cleanupVideo has no source left (code 4, networkState 3)
DirectError(i, what) ==
    /\ effectPending = "none" /\ StartupDone
    /\ directs[i].armed
    /\ directs[i].srcCleared => what = "fatal"
    /\ DirectFailed(i, what)

\* the 5 s timer of loadAndApplyTexture, which no cleanup clears; it is due
\* after the 5 s timer that the mount effect set before any load began
DirectTimeout(i) ==
    /\ effectPending = "none" /\ StartupDone /\ ~forcedTimer
    /\ directs[i].armed
    /\ DirectFailed(i, TimedOut)

\* isPreloadingRef once Promise.allSettled has seen every call settle
StillPreloading(calls) ==
    \E k \in DOMAIN calls : calls[k] \in {"waiting", "pending", "stuck"}

\* the calls after the promise of the call that stored the entry of id has
\* settled: resolve or reject of that call's executor
SettledCalls(calls, id, how) ==
    [k \in DOMAIN calls |->
        IF preloadQueue[k] = id /\ calls[k] = "pending" THEN how ELSE calls[k]]

\* the staggered timer of preloadVideos (index * 200 ms) calls
\* preloadVideo(availableVideos[k]); the first comes before the 100 ms load
\* timer of the mount effect, the others after
StartPreload(k) ==
    /\ effectPending = "none"
    /\ preloadCalls[k] = "waiting"
    /\ \A j \in DOMAIN preloadCalls : j < k => preloadCalls[j] # "waiting"
    /\ k > 1 => \A t \in timers : t.kind # "initial"
    /\ LET id == preloadQueue[k]
       IN  IF videoPool[id].present /\ videoPool[id].isReady
           THEN /\ preloadCalls' = [preloadCalls EXCEPT ![k] = "resolved"]
                /\ UNCHANGED videoPool
           ELSE IF videoPool[id].present /\ videoPool[id].isLoading
           THEN /\ preloadCalls' = [preloadCalls EXCEPT ![k] = "stuck"]
                /\ UNCHANGED videoPool
           ELSE /\ preloadCalls' = [preloadCalls EXCEPT ![k] = "pending"]
                /\ videoPool' = [videoPool EXCEPT ![id] = NewEntry]
    /\ isPreloading' = StillPreloading(preloadCalls')
    /\ UNCHANGED <<numMedia, failedVideos, preloadQueue, directs, videoElement,
                   currentVideoPath, currentMediaIndex, effectPending, timers,
                   forcedTimer, cubeGroup, cubesData, displayed, switchWindow, burst, outcomes,
                   retries, lastSwitch, sphereBuilds, clicks, everLoaded,
                   cellVars>>

\* loadeddata on a pooled element: handleLoadedData of preloadVideo; the 8 s
\* timer finds isLoading false from here on and is dropped
PreloadLoaded(id) ==
    /\ effectPending = "none" /\ StartupDone
    /\ videoPool[id].onLoaded /\ ~videoPool[id].srcCleared
    /\ videoPool' = [videoPool EXCEPT ![id] = ReadyEntry(@)]
    /\ failedVideos' = failedVideos \ {id}
    /\ preloadCalls' = SettledCalls(preloadCalls, id, "resolved")
    /\ isPreloading' = StillPreloading(preloadCalls')
    /\ outcomes' = Logged(outcomes, id, "ok")
    /\ everLoaded' = everLoaded \cup {id}
    /\ UNCHANGED <<numMedia, preloadQueue, directs, videoElement, currentVideoPath,
                   currentMediaIndex, effectPending, timers, forcedTimer, cubeGroup, cubesData,
                   displayed, switchWindow, burst, retries, lastSwitch, sphereBuilds,
                   clicks, cellVars>>

\* handleError of preloadVideo: the entry is deleted and the identifier
\* blacklisted; videoElementRef keeps pointing at the element if it was the main one
PreloadFailed(id, what) ==
    /\ videoPool' = [videoPool EXCEPT ![id] = NoEntry]
    /\ failedVideos' = failedVideos \cup {id}
    /\ preloadCalls' = SettledCalls(preloadCalls, id, "rejected")
    /\ isPreloading' = StillPreloading(preloadCalls')
    /\ videoElement' = IF videoElement = PoolElement(id)
                       THEN [kind |-> "orphan", ref |-> id] ELSE videoElement
    /\ outcomes' = IF videoPool[id].isLoading THEN Logged(outcomes, id, what)
                   ELSE outcomes
    /\ UNCHANGED <<numMedia, preloadQueue, directs, currentVideoPath, currentMediaIndex,
                   effectPending, timers, forcedTimer, cubeGroup, cubesData, displayed,
                   switchWindow, burst, retries, lastSwitch, sphereBuilds, clicks,
                   everLoaded,
                   cellVars>>

\* an error event on a pooled element, whose once-listener for it is still attached
PreloadError(id, what) ==
    /\ effectPending = "none" /\ StartupDone
    /\ videoPool[id].onError
    /\ \/ videoPool[id].srcCleared /\ what = "fatal"
       \/ videoPool[id].isLoading /\ ~videoPool[id].srcCleared
    /\ PreloadFailed(id, what)

\* the 8 s timer of preloadVideo
PreloadTimeout(id) ==
    /\ effectPending = "none" /\ StartupDone /\ ~forcedTimer
    /\ videoPool[id].timeout
    /\ videoPool[id].isLoading /\ ~videoPool[id].isReady
    /\ PreloadFailed(id, TimedOut)

\* instantSwitchVideo(target) for a Ready target, with the setCurrentMediaIndex
\* that switchTexture makes before it
InstantSwitch(target) ==
    LET paused == PausePool(videoPool, videoElement)
    IN  /\ directs' = PauseDirects(directs, videoElement)
        /\ videoPool' = [paused EXCEPT ![target].playing = ~paused[target].srcCleared]
        /\ videoElement' = PoolElement(target)
        /\ currentVideoPath' = target
        /\ ApplyTexture(target)
        /\ currentMediaIndex' = target
        /\ effectPending' = IF target # currentMediaIndex THEN "switch" ELSE effectPending

\* handleClick: the blacklist is cleared when it holds every video, then
\* switchTexture runs
handleClick ==
    LET failed == ClearedBlacklist(failedVideos)
        readyVideos == ReadyVideos(videoPool)
        otherVideos == readyVideos \ {currentVideoPath}
        candidates == IF Cardinality(readyVideos) = 1 \/ otherVideos = {}
                      THEN readyVideos ELSE otherVideos
        did(kind, target) ==
            [kind |-> kind, target |-> target, before |-> displayed,
             ready |-> Cardinality(readyVideos),
             cleared |-> Available(failedVideos) = {}]
    IN  /\ mounted
        /\ effectPending = "none"
        /\ clicks < MaxClicks
        /\ clicks' = clicks + 1
        /\ failedVideos' = failed
        /\ IF switchWindow
           THEN /\ lastSwitch' = did("dropped", NoId)
                /\ UNCHANGED <<videoPool, directs, videoElement, currentVideoPath,
                               currentMediaIndex, effectPending, cubeGroup, cubesData, displayed,
                               switchWindow, burst, sphereBuilds>>
           ELSE IF readyVideos = {}
           THEN IF Available(failed) # {}
                THEN /\ \E selectedVideo \in Available(failed) :
                            /\ Load(selectedVideo, "click", FALSE, directs, videoPool)
                            /\ lastSwitch' = did("load", selectedVideo)
                     /\ burst' = burst + 1
                     /\ UNCHANGED <<currentVideoPath, currentMediaIndex, effectPending,
                                    cubeGroup, cubesData, displayed, switchWindow, sphereBuilds>>
                ELSE /\ Fallback
                     /\ lastSwitch' = did("fallback", NoId)
                     /\ UNCHANGED <<videoPool, directs, videoElement, currentVideoPath,
                                    currentMediaIndex, effectPending, switchWindow,
                                    burst>>
           ELSE /\ switchWindow' = TRUE
                /\ \E selectedVideo \in candidates :
                       /\ InstantSwitch(selectedVideo)
                       /\ lastSwitch' = did("instant", selectedVideo)
                /\ burst' = burst + 1
        /\ UNCHANGED <<numMedia, preloadQueue, preloadCalls, isPreloading, timers,
                       forcedTimer, outcomes, retries, everLoaded,
                   cellVars>>

\* 300 ms pass without a click
Elapse ==
    /\ effectPending = "none"
    /\ switchWindow \/ burst > 0
    /\ switchWindow' = FALSE
    /\ burst' = 0
    /\ UNCHANGED <<numMedia, videoPool, failedVideos, preloadQueue, preloadCalls,
                   isPreloading, directs, videoElement, currentVideoPath,
                   currentMediaIndex, effectPending, timers, forcedTimer, cubeGroup, cubesData,
                   displayed, outcomes, retries, lastSwitch, sphereBuilds, clicks,
                   everLoaded,
                   cellVars>>

\* the 5 s timer of the mount effect, due after the 100 ms load timer and the
\* staggered preload timers
ForcedFallback ==
    /\ effectPending = "none"
    /\ forcedTimer
    /\ StartupDone
    /\ forcedTimer' = FALSE
    /\ IF cubeGroup
       THEN UNCHANGED <<cubeGroup, cubesData, displayed, sphereBuilds>>
       ELSE Fallback
    /\ UNCHANGED <<numMedia, videoPool, failedVideos, preloadQueue, preloadCalls,
                   isPreloading, directs, videoElement, currentVideoPath,
                   currentMediaIndex, effectPending, timers, switchWindow, burst,
                   outcomes, retries, lastSwitch, clicks, everLoaded,
                   cellVars>>

NextPool ==
    \/ RunEffect
    \/ \E t \in timers : LoadTimer(t)
    \/ \E i \in 1 .. Len(directs) : DirectLoaded(i)
    \/ \E i \in 1 .. Len(directs), what \in ErrorKinds : DirectError(i, what)
    \/ \E i \in 1 .. Len(directs) : DirectTimeout(i)
    \/ \E k \in DOMAIN preloadCalls : StartPreload(k)
    \/ \E id \in MediaIds : PreloadLoaded(id)
    \/ \E id \in MediaIds, what \in ErrorKinds : PreloadError(id, what)
    \/ \E id \in MediaIds : PreloadTimeout(id)
    \/ handleClick
    \/ Elapse
    \/ ForcedFallback

SpecPool == InitPool /\ [][NextPool]_vars

----------------------------------------------------------------------------
(* The specification of a media list that names a video twice: the mount
   effect has run with a list of three entries for two videos *)

\* the media lists of two videos in which one of them comes again at the end
RepeatedLists == {<<1, 2, 1>>, <<1, 2, 2>>}

\* the state after the mount effect for such a list: preloadVideos has queued
\* every entry of the list and made one call of preloadVideo due for each
QueueMounted ==
    /\ numMedia = 2
    /\ videoPool = [id \in MediaIds |-> NoEntry]
    /\ failedVideos = {}
    /\ preloadQueue \in RepeatedLists
    /\ preloadCalls = [k \in 1 .. Len(preloadQueue) |-> "waiting"]
    /\ isPreloading = TRUE
    /\ directs = <<>>
    /\ videoElement = NoElement
    /\ \E selectedVideo \in MediaIds :
           /\ currentVideoPath = selectedVideo
           /\ currentMediaIndex = selectedVideo
           /\ timers = {[kind |-> "initial", id |-> selectedVideo, by |-> 0,
                        again |-> FALSE]}
    /\ effectPending = "mount"
    /\ forcedTimer = TRUE
    /\ cubeGroup = FALSE
    /\ cubesData = FALSE
    /\ displayed = NoId
    /\ switchWindow = FALSE
    /\ burst = 0
    /\ outcomes = [id \in MediaIds |-> <<>>]
    /\ everLoaded = {}
    /\ retries = [id \in MediaIds |-> <<>>]
    /\ lastSwitch = NoSwitch
    /\ sphereBuilds = 0
    /\ clicks = 0

InitQueue == CellAtRest /\ QueueMounted

\* the steps of the pool without clicks
NextQueue ==
    \/ RunEffect
    \/ \E t \in timers : LoadTimer(t)
    \/ \E i \in 1 .. Len(directs) : DirectLoaded(i)
    \/ \E i \in 1 .. Len(directs), what \in ErrorKinds : DirectError(i, what)
    \/ \E i \in 1 .. Len(directs) : DirectTimeout(i)
    \/ \E k \in DOMAIN preloadCalls : StartPreload(k)
    \/ \E id \in MediaIds : PreloadLoaded(id)
    \/ \E id \in MediaIds : PreloadTimeout(id)
    \/ \E id \in MediaIds, what \in ErrorKinds : PreloadError(id, what)
    \/ ForcedFallback

SpecQueue == InitQueue /\ [][NextQueue]_vars

\* the loads of a page whose media errors are all of the kind that handleError
\* blacklists, so that an attempt logged as not blacklisted was ended by its timer
NextTimeout ==
    \/ RunEffect
    \/ \E t \in timers : LoadTimer(t)
    \/ \E i \in 1 .. Len(directs) : DirectLoaded(i)
    \/ \E i \in 1 .. Len(directs) : DirectError(i, "fatal")
    \/ \E i \in 1 .. Len(directs) : DirectTimeout(i)
    \/ \E k \in DOMAIN preloadCalls : StartPreload(k)
    \/ \E id \in MediaIds : PreloadLoaded(id)
    \/ \E id \in MediaIds : PreloadError(id, "fatal")
    \/ \E id \in MediaIds : PreloadTimeout(id)
    \/ handleClick
    \/ Elapse
    \/ ForcedFallback

SpecTimeout == InitPool /\ [][NextTimeout]_vars


----------------------------------------------------------------------------
(* The life-cycle specification: the page of one video with its render loop, *)
(* until and after the cleanup of the mount effect.  The cleanup cancels the *)
(* frame request and removes the canvas and window listeners; it clears no   *)
(* timer, and the listeners of the media elements stay attached.             *)

\* the pooled entry whose element may still be waiting for the 100 ms timer
\* that sets its src: the one preloadVideos started last, while it is loading
YoungestPreload ==
    {id \in MediaIds :
        /\ videoPool[id].present /\ videoPool[id].isLoading
        /\ preloadCalls[id] # "waiting"
        /\ \A j \in MediaIds : j > id => preloadCalls[j] = "waiting"}

\* a pooled entry after the cleanup of the mount effect: the element is paused,
\* emptied and removed from the document, the texture disposed, the entry
\* dropped from the map. The record stays for the closures of its handlers and
\* its 8 s timer; an element emptied before its src timer gets its src afterwards
TornEntry(e, late) ==
    IF e.present
    THEN [e EXCEPT !.present = FALSE, !.texture = FALSE, !.playing = FALSE,
                   !.srcCleared = ~late]
    ELSE e

\* the cleanup function of the mount effect
Teardown ==
    /\ mounted
    /\ effectPending = "none"
    /\ mounted' = FALSE
    /\ rafPending' = Max(rafPending - 1, 0)
    /\ directs' = PauseDirects(directs, videoElement)
    /\ \E late \in BOOLEAN :
           /\ late => YoungestPreload # {}
           /\ videoPool' = [id \in MediaIds |->
                                TornEntry(PausePool(videoPool, videoElement)[id],
                                          late /\ id \in YoungestPreload)]
    /\ cubesData' = FALSE
    /\ UNCHANGED <<cubes, isDown, history, currentSpeed, sinceMouse, sinceFrame,
                   sinceAct, rafGap, frames, moves, sphereVars, dragVars, faceVars,
                   textureVars, lastStep, homePage, lazyMedia,
                   numMedia, failedVideos, preloadQueue, preloadCalls, isPreloading,
                   videoElement, currentVideoPath, currentMediaIndex, effectPending,
                   timers, forcedTimer, cubeGroup, displayed, switchWindow, burst,
                   outcomes, everLoaded, retries, lastSwitch, sphereBuilds, clicks>>

\* the refresh periods of the displays tried: 60 Hz and 30 Hz
RefreshPeriods == {DragInterval, IdleInterval}

\* the page after the mount effect, with one video and either display
InitLife ==
    /\ cubes = [c \in Cells |-> NewCube]
    /\ isDown = FALSE
    /\ history = <<>>
    /\ currentSpeed = 0
    /\ sinceMouse = MouseThrottle
    /\ sinceFrame = IdleInterval
    /\ sinceAct = [c \in Cells |-> ClockCap]
    /\ rafGap \in RefreshPeriods
    /\ frames = 0
    /\ moves = 0
    /\ SphereBuilt(BaseHeight)
    /\ Mounted
    /\ PoolMounted
    /\ numMedia = 1

\* the page is left alone or closed: nobody clicks
NextLife ==
    \/ RunEffect
    \/ \E t \in timers : LoadTimer(t)
    \/ \E i \in 1 .. Len(directs) : DirectLoaded(i)
    \/ \E i \in 1 .. Len(directs), what \in ErrorKinds : DirectError(i, what)
    \/ \E i \in 1 .. Len(directs) : DirectTimeout(i)
    \/ \E k \in DOMAIN preloadCalls : StartPreload(k)
    \/ \E id \in MediaIds : PreloadLoaded(id)
    \/ \E id \in MediaIds, what \in ErrorKinds : PreloadError(id, what)
    \/ \E id \in MediaIds : PreloadTimeout(id)
    \/ ForcedFallback
    \/ animate
    \/ Teardown

SpecLife == InitLife /\ [][NextLife]_vars

----------------------------------------------------------------------------
(* The frame specification: the render loop on a 60 Hz display that stops    *)
(* calling back now and then (a tab in the background), with presses and     *)
(* releases of the button over cells at rest                                 *)

\* no frame callback for StallTime: only the clocks move
stall ==
    /\ rafPending > 0
    /\ sinceFrame < StallTime
    /\ sinceFrame' = sinceFrame + StallTime
    /\ sinceMouse' = MouseThrottle
    /\ UNCHANGED <<cubes, isDown, history, currentSpeed, sinceAct, rafGap, frames, moves,
                   sphereVars, lifeVars, dragVars, faceVars, textureVars, lastStep, homePage, lazyMedia,
                   poolVars>>

InitFrames == InitBurst

NextFrames ==
    \/ handleMouseDown(PointerHome)
    \/ handleMouseUp
    \/ animate
    \/ stall

SpecFrames == InitFrames /\ [][NextFrames]_vars

----------------------------------------------------------------------------
(* The page specification: HomePage from its first render until a wheel      *)
(* event has made App switch to another page.  React renders after a state   *)
(* has changed, not inside the handler that changed it; rendering, commit    *)
(* and the effects of the commit are one step here.  The 1000 ms timer of    *)
(* the wheel effect never fires: the effect's cleanup clears it when the     *)
(* page renders with isScrolling set, and when the page goes at the latest.  *)

MaxWheels == 4

\* event.deltaY of the wheel events tried
DeltaYs == {-100, 0, 100}

PageUnchanged ==
    UNCHANGED <<cubes, isDown, history, currentSpeed, sinceMouse, sinceFrame, sinceAct,
                rafGap, frames, moves, sphereVars, lifeVars, dragVars, faceVars,
                textureVars, lastStep, lazyMedia, poolVars>>

\* the 800 ms timer of the first effect: setIsLoading(false)
loadingTimeout ==
    /\ homePage.loadingTimer
    /\ homePage' = [homePage EXCEPT !.loadingTimer = FALSE,
                                    !.isLoading = FALSE,
                                    !.renderDue = TRUE]
    /\ PageUnchanged

\* React renders HomePage with its new state and commits; the wheel effect is
\* cleaned up (removeEventListener, clearTimeout(scrollTimeout)) and runs again
renderPage ==
    /\ homePage.rendered
    /\ homePage.renderDue
    /\ homePage' = [homePage EXCEPT !.renderDue = FALSE,
                                    !.overlay = homePage.isLoading,
                                    !.scrollTimeout = FALSE,
                                    !.listener = Attached(homePage)]
    /\ PageUnchanged

\* a wheel event over the sphere's container; handleWheel if it is attached
wheel(deltaY) ==
    LET fires == homePage.listener = "free" /\ deltaY > 0
    IN  /\ homePage.rendered
        /\ homePage.wheels < MaxWheels
        /\ homePage' =
               [homePage EXCEPT
                   !.wheels = @ + 1,
                   !.lastWheel = [deltaY |-> deltaY, overlay |-> homePage.overlay,
                                  locked |-> homePage.isScrolling,
                                  timers |-> IF fires THEN 1 ELSE 0],
                   !.isScrolling = IF fires THEN TRUE ELSE @,
                   !.renderDue = IF fires /\ ~homePage.isScrolling THEN TRUE ELSE @,
                   !.advanceTimers = IF fires THEN @ + 1 ELSE @,
                   !.scrollTimeout = IF fires THEN TRUE ELSE @]
        /\ PageUnchanged

\* a 200 ms timer of handleWheel: setActiveTab('inspiration'). App renders
\* InspirationPage instead of HomePage, whose effects are cleaned up
advanceTimeout ==
    /\ homePage.advanceTimers > 0
    /\ homePage' = [homePage EXCEPT !.advanceTimers = @ - 1,
                                    !.advances = @ + 1,
                                    !.rendered = FALSE,
                                    !.listener = NoListener,
                                    !.loadingTimer = FALSE,
                                    !.scrollTimeout = FALSE]
    /\ PageUnchanged

InitPage == InitCell

NextPage ==
    \/ loadingTimeout
    \/ renderPage
    \/ \E deltaY \in DeltaYs : wheel(deltaY)
    \/ advanceTimeout

SpecPage == InitPage /\ [][NextPage]_vars

----------------------------------------------------------------------------
(* The lazy-media specification: one LazyMedia of the inspiration page, from *)
(* its first render; its media elements load or fail in any order.  A state  *)
(* change is rendered before the next event of a media element, which comes  *)
(* a retry delay later at the earliest.                                      *)

LazyKinds == {"image", "video", "preview"}

LazyUnchanged ==
    UNCHANGED <<cubes, isDown, history, currentSpeed, sinceMouse, sinceFrame, sinceAct,
                rafGap, frames, moves, sphereVars, lifeVars, dragVars, faceVars,
                textureVars, lastStep, homePage, poolVars>>

\* the page renders the component with its props
renderLazy(kind, custom) ==
    /\ lazyMedia.kind = "none"
    /\ lazyMedia' = [lazyMedia EXCEPT !.kind = kind, !.custom = custom]
    /\ LazyUnchanged

\* the IntersectionObserver reports the component in view: the media element
\* is rendered with the URL of src, and the preview img beside it
intersect ==
    /\ lazyMedia.kind # "none"
    /\ ~lazyMedia.isInView
    /\ lazyMedia' = [lazyMedia EXCEPT !.isInView = TRUE,
                                      !.isLoading = TRUE,
                                      !.currentSrc = BaseSrc,
                                      !.fetching = TRUE,
                                      !.previewFetching = lazyMedia.kind = "preview"]
    /\ LazyUnchanged

\* load of the img, loadeddata of the video: handleLoad, or handleVideoLoad
\* beside a preview
mediaLoaded ==
    /\ lazyMedia.fetching
    /\ lazyMedia' = [lazyMedia EXCEPT
                        !.fetching = FALSE,
                        !.isLoaded = IF lazyMedia.kind = "preview" THEN @ ELSE TRUE,
                        !.videoLoaded = IF lazyMedia.kind = "preview" THEN TRUE ELSE @,
                        !.hideTimer = IF lazyMedia.kind = "preview" THEN TRUE ELSE @,
                        !.isLoading = FALSE,
                        !.hasError = FALSE,
                        !.retryCount = 0,
                        !.failures = 0,
                        !.retried = <<>>]
    /\ LazyUnchanged

\* error of the media element: handleError, which calls retryLoad
mediaError ==
    /\ lazyMedia.fetching
    /\ LET failed == [lazyMedia EXCEPT !.fetching = FALSE, !.failures = @ + 1]
           after == retryLoad(failed)
       IN  lazyMedia' = [after EXCEPT
                            !.retried = IF after.retryTimers # failed.retryTimers
                                        THEN Append(@, RetryStep * after.retryCount)
                                        ELSE @]
    /\ LazyUnchanged

\* a timer of retryLoad: setCurrentSrc; the element fetches when its src changes
retryTimeout(t) ==
    /\ t \in lazyMedia.retryTimers
    /\ lazyMedia' = [lazyMedia EXCEPT
                        !.retryTimers = @ \ {t},
                        !.currentSrc = t.n,
                        !.fetching = @ \/ t.n # lazyMedia.currentSrc]
    /\ LazyUnchanged

\* load of the preview img: handlePreviewLoad
previewLoad ==
    /\ lazyMedia.previewFetching
    /\ lazyMedia' = [lazyMedia EXCEPT !.previewFetching = FALSE,
                                      !.previewLoaded = TRUE,
                                      !.isLoading = FALSE,
                                      !.hasError = FALSE,
                                      !.retryCount = 0]
    /\ LazyUnchanged

\* error of the preview img, which is no longer rendered
previewError ==
    /\ lazyMedia.previewFetching
    /\ lazyMedia' = [lazyMedia EXCEPT !.previewFetching = FALSE, !.showPreview = FALSE]
    /\ LazyUnchanged

\* the 1 s timer of handleVideoLoad: the preview img is no longer rendered
hidePreview ==
    /\ lazyMedia.hideTimer
    /\ lazyMedia' = [lazyMedia EXCEPT !.hideTimer = FALSE,
                                      !.showPreview = FALSE,
                                      !.previewFetching = FALSE]
    /\ LazyUnchanged

InitLazy == InitCell

NextLazy ==
    \/ \E kind \in LazyKinds, custom \in BOOLEAN : renderLazy(kind, custom)
    \/ intersect
    \/ mediaLoaded
    \/ mediaError
    \/ \E t \in lazyMedia.retryTimers : retryTimeout(t)
    \/ previewLoad
    \/ previewError
    \/ hidePreview

SpecLazy == InitLazy /\ [][NextLazy]_vars

----------------------------------------------------------------------------
(* The texture specification: updateCubeTextures runs that follow one        *)
(* another on a sphere that is not rebuilt, each for a texture of the pool   *)
(* and seen from some side.  The sphere of the page has some thousand cells  *)
(* (the sum of ringCells); a run depends on their number only through        *)
(* batchSize, so the sphere here has 1 to MaxCubes cells, enough for a run   *)
(* of three batches.                                                         *)

MaxCubes == 52

\* the sides the camera sees the sphere from when a run starts
Views == 0 .. 2

\* the cosine between the normal of cell c and the camera's direction
CameraCosine(c, view) == ((5 * c + 7 * view) % 21) * 100 - 1000

\* cubesWithPriority.map(...): the priorities of the first `count` cells
RECURSIVE Priorities(_, _, _)
Priorities(count, view, radius) ==
    IF count = 0 THEN <<>>
    ELSE Append(Priorities(count - 1, view, radius),
                priority(CameraCosine(count, view), radius))

\* a direct load that has completed and plays
LoadedDirect(id, cause) ==
    [NewDirect(id, cause, FALSE) EXCEPT !.armed = FALSE, !.playing = TRUE,
                                         !.texture = TRUE]

\* the pool variables of a page of two videos after the start-up: both are
\* preloaded and Ready, the first was loaded by the index effect and by the
\* 100 ms timer and is shown, and the forced-fallback timer has fired
MediaShown ==
    /\ numMedia = 2
    /\ videoPool = [id \in MediaIds |-> [ReadyEntry(NewEntry) EXCEPT !.playing = FALSE]]
    /\ failedVideos = {}
    /\ preloadQueue = [i \in MediaIds |-> i]
    /\ preloadCalls = [id \in MediaIds |-> "resolved"]
    /\ isPreloading = FALSE
    /\ directs = <<LoadedDirect(1, "mount"), LoadedDirect(1, "initial")>>
    /\ videoElement = DirectElement(2)
    /\ currentVideoPath = 1
    /\ currentMediaIndex = 1
    /\ effectPending = "none"
    /\ timers = {}
    /\ forcedTimer = FALSE
    /\ cubeGroup = TRUE
    /\ cubesData = TRUE
    /\ displayed = 1
    /\ switchWindow = FALSE
    /\ burst = 0
    /\ outcomes = [id \in MediaIds |-> IF id = 1 THEN <<"ok", "ok", "ok">> ELSE <<"ok">>]
    /\ everLoaded = MediaIds
    /\ retries = [id \in MediaIds |-> <<>>]
    /\ lastSwitch = NoSwitch
    /\ sphereBuilds = 1
    /\ clicks = 0

----------------------------------------------------------------------------
(* The geometry specification: the sphere is built in a window of some       *)
(* height, with the placeholder material on a page without media or with the *)
(* texture of the first video, and the window is resized                     *)

\* the most calls of initCubeSphere that the history counts
MaxBuilds == 3

\* the identifier whose file the element el was created for (none: NoId)
ElementVideo(el, ds) ==
    IF el.kind = "direct" THEN ds[el.ref].id
    ELSE IF el.kind \in {"pool", "orphan"} THEN el.ref
    ELSE NoId

InitSphere ==
    /\ cubes = [c \in Cells |-> NewCube]
    /\ isDown = FALSE
    /\ history = <<>>
    /\ currentSpeed = 0
    /\ sinceMouse = MouseThrottle
    /\ sinceFrame = IdleInterval
    /\ sinceAct = [c \in Cells |-> ClockCap]
    /\ rafGap \in RafGaps
    /\ frames = 0
    /\ moves = 0
    /\ \E height \in Heights : SphereBuilt(height)
    /\ \/ NoMedia /\ Mounted
       \/ MediaShown /\ MountedOver(Cardinality(Cells), 1)

\* handleResize: the camera and the renderer take the new size; if a sphere
\* exists and videoElementRef holds an element, the sphere is rebuilt for the
\* new height with a new VideoTexture of that element, else it is left alone
handleResize(height) ==
    /\ mounted
    /\ viewportHeight' = height
    /\ IF cubeGroup /\ videoElement # NoElement
       THEN /\ sphereRadius' = calculateSphereSize(height)
            /\ ringCells' = generateCubePositions(calculateSphereSize(height))
            /\ ringPhi' = [i \in 1 .. Rings |-> Phi(i - 1)]
            /\ cubes' = [c \in Cells |-> NewCube]
            /\ frontOpacity' = [c \in Cells |-> FullOpacity]
            /\ frontTexture' = [c \in 1 .. numCubes |-> ElementVideo(videoElement, directs)]
            /\ displayed' = ElementVideo(videoElement, directs)
            /\ cubesData' = TRUE
            /\ sphereBuilds' = Min(sphereBuilds + 1, MaxBuilds)
       ELSE UNCHANGED <<sphereRadius, ringCells, ringPhi, cubes, frontOpacity, frontTexture,
                        displayed, cubesData, sphereBuilds>>
    /\ UNCHANGED <<isDown, history, currentSpeed, sinceMouse, sinceFrame, sinceAct,
                   rafGap, frames, moves, lifeVars, dragVars, sideOpacity, numCubes,
                   textureRun, updated, lastStep, homePage, lazyMedia,
                   numMedia, videoPool, failedVideos, preloadQueue, preloadCalls,
                   isPreloading, directs, videoElement, currentVideoPath,
                   currentMediaIndex, effectPending, timers, forcedTimer, cubeGroup,
                   switchWindow, burst, outcomes, everLoaded, retries, lastSwitch, clicks>>

NextSphere == \E height \in Heights : handleResize(height)

SpecSphere == InitSphere /\ [][NextSphere]_vars

----------------------------------------------------------------------------
(* The texture specification: the first video is shown on a sphere of some   *)
(* number of cells, and its cells are given textures in batches              *)

InitTexture ==
    /\ cubes = [c \in Cells |-> NewCube]
    /\ isDown = FALSE
    /\ history = <<>>
    /\ currentSpeed = 0
    /\ sinceMouse = MouseThrottle
    /\ sinceFrame = IdleInterval
    /\ sinceAct = [c \in Cells |-> ClockCap]
    /\ rafGap \in RafGaps
    /\ frames = 0
    /\ moves = 0
    /\ SphereBuilt(BaseHeight)
    /\ MediaShown
    /\ \E cubeCount \in 1 .. MaxCubes : MountedOver(cubeCount, 1)

\* one call of processBatch in the closure `run`
Batch(run) ==
    LET totalCubes == Len(run.order)
        endIndex == BatchEnd(run.currentIndex, totalCubes)
        batch == SubSeq(run.order, run.currentIndex + 1, endIndex)
        cells == {batch[i] : i \in 1 .. Len(batch)}
    IN  /\ frontTexture' = [c \in 1 .. numCubes |->
                               IF c \in cells THEN run.texture ELSE frontTexture[c]]
        /\ textureRun' = [run EXCEPT !.currentIndex = endIndex,
                                     !.batches = @ + 1,
                                     !.requested = endIndex < totalCubes]
        /\ updated' = IF run.currentIndex = 0 THEN batch ELSE updated \o batch

\* updateCubeTextures(videoTexture) with the camera at `view`: the priorities,
\* the sort and the first processBatch
updateCubeTextures(texture, view) ==
    LET score == Priorities(numCubes, view, sphereRadius \div 10)
    IN  /\ cubesData
        /\ cubeGroup
        /\ ~textureRun.requested
        /\ Batch([texture |-> texture, priority |-> score,
                  order |-> Sorted(score, 1 .. numCubes),
                  currentIndex |-> 0, batches |-> 0, requested |-> FALSE,
                  earlier |-> <<>>])
        /\ displayed' = texture
        /\ UNCHANGED <<cubes, isDown, history, currentSpeed, sinceMouse, sinceFrame,
                       sinceAct, rafGap, frames, moves, sphereVars, lifeVars, dragVars,
                       faceVars, lastStep, homePage, lazyMedia, numCubes,
                       numMedia, videoPool, failedVideos, preloadQueue, preloadCalls,
                       isPreloading, directs, videoElement, currentVideoPath,
                       currentMediaIndex, effectPending, timers, forcedTimer, cubeGroup,
                       cubesData, switchWindow, burst, outcomes, everLoaded, retries,
                       lastSwitch, sphereBuilds, clicks>>

\* processBatch, called back by requestAnimationFrame
processBatch ==
    /\ textureRun.requested
    /\ Batch(textureRun)
    /\ UNCHANGED <<cubes, isDown, history, currentSpeed, sinceMouse, sinceFrame,
                   sinceAct, rafGap, frames, moves, sphereVars, lifeVars, dragVars,
                   faceVars, lastStep, homePage, lazyMedia, numCubes, poolVars>>

NextTexture ==
    \/ \E texture \in MediaIds, view \in Views : updateCubeTextures(texture, view)
    \/ processBatch

SpecTexture == InitTexture /\ [][NextTexture]_vars

----------------------------------------------------------------------------
(* The specification of overlapping texture updates: a run is started while
   the run before it still has a processBatch requested *)

\* the number of overtaken runs whose processBatch stays requested
MaxEarlier == 1

\* the cells of the next processBatch of the closure `run`
BatchCells(run) ==
    {run.order[i] : i \in run.currentIndex + 1 .. BatchEnd(run.currentIndex, Len(run.order))}

\* the front materials after the for loop of processBatch in the closure `run`
AfterBatch(front, run) ==
    [c \in 1 .. numCubes |-> IF c \in BatchCells(run) THEN run.texture ELSE front[c]]

\* the closure `run` after processBatch: currentIndex = endIndex
AfterIndex(run) ==
    [run EXCEPT !.currentIndex = BatchEnd(run.currentIndex, Len(run.order))]

\* the front materials after the requested processBatch callbacks of the
\* closures `runs`, called in the order they were requested
RECURSIVE AfterBatches(_, _)
AfterBatches(front, runs) ==
    IF runs = <<>> THEN front
    ELSE AfterBatches(AfterBatch(front, Head(runs)), Tail(runs))

\* the closures of `runs` that request a further processBatch
RECURSIVE StillRequested(_)
StillRequested(runs) ==
    IF runs = <<>> THEN <<>>
    ELSE LET run == AfterIndex(Head(runs))
         IN  (IF run.currentIndex < Len(run.order) THEN <<run>> ELSE <<>>)
                 \o StillRequested(Tail(runs))

\* updateCubeTextures(videoTexture) with the camera at `view`, called while the
\* run before it has a processBatch requested: nothing cancels that request
updateCubeTexturesAgain(texture, view) ==
    LET score == Priorities(numCubes, view, sphereRadius \div 10)
        run == [texture |-> texture, priority |-> score,
                order |-> Sorted(score, 1 .. numCubes),
                currentIndex |-> 0, batches |-> 0, requested |-> FALSE,
                earlier |-> <<>>]
        overtaken == [texture |-> textureRun.texture, order |-> textureRun.order,
                      currentIndex |-> textureRun.currentIndex]
    IN  /\ cubesData
        /\ cubeGroup
        /\ textureRun.requested
        /\ Len(textureRun.earlier) < MaxEarlier
        /\ frontTexture' = AfterBatch(frontTexture, run)
        /\ textureRun' = [AfterIndex(run) EXCEPT
                              !.batches = 1,
                              !.requested = BatchSize < numCubes,
                              !.earlier = Append(textureRun.earlier, overtaken)]
        /\ updated' = SubSeq(run.order, 1, BatchEnd(0, numCubes))
        /\ displayed' = texture
        /\ UNCHANGED <<cubes, isDown, history, currentSpeed, sinceMouse, sinceFrame,
                       sinceAct, rafGap, frames, moves, sphereVars, lifeVars, dragVars,
                       faceVars, lastStep, homePage, lazyMedia, numCubes,
                       numMedia, videoPool, failedVideos, preloadQueue, preloadCalls,
                       isPreloading, directs, videoElement, currentVideoPath,
                       currentMediaIndex, effectPending, timers, forcedTimer, cubeGroup,
                       cubesData, switchWindow, burst, outcomes, everLoaded, retries,
                       lastSwitch, sphereBuilds, clicks>>

\* one animation frame: the requested processBatch callbacks are called in the
\* order they were requested, those of the overtaken runs first
animationFrame ==
    LET front == AfterBatches(frontTexture, textureRun.earlier)
        run == AfterIndex(textureRun)
    IN  /\ textureRun.requested \/ textureRun.earlier # <<>>
        /\ frontTexture' = IF textureRun.requested THEN AfterBatch(front, textureRun)
                           ELSE front
        /\ textureRun' =
               IF textureRun.requested
               THEN [run EXCEPT !.batches = @ + 1,
                                !.requested = run.currentIndex < Len(run.order),
                                !.earlier = StillRequested(textureRun.earlier)]
               ELSE [textureRun EXCEPT !.earlier = StillRequested(textureRun.earlier)]
        /\ updated' = IF textureRun.requested
                      THEN updated \o SubSeq(run.order, textureRun.currentIndex + 1,
                                             run.currentIndex)
                      ELSE updated
        /\ UNCHANGED <<cubes, isDown, history, currentSpeed, sinceMouse, sinceFrame,
                       sinceAct, rafGap, frames, moves, sphereVars, lifeVars, dragVars,
                       faceVars, lastStep, homePage, lazyMedia, numCubes, poolVars>>

NextOverlap ==
    \/ \E texture \in MediaIds, view \in Views : updateCubeTextures(texture, view)
    \/ \E texture \in MediaIds, view \in Views : updateCubeTexturesAgain(texture, view)
    \/ animationFrame

SpecOverlap == InitTexture /\ [][NextOverlap]_vars

----------------------------------------------------------------------------
(* Claims about the page, checked under SpecPage *)

\* C27: once the loading overlay has gone, a downward wheel event over the
\* render surface that comes while no scroll lock is set arms exactly one
\* advance event (setActiveTab('inspiration'), 200 ms later); an upward wheel
\* event, and any wheel event while the lock is set, arms none.
C27_OneAdvancePerUnlockedWheel ==
    [][homePage'.wheels = homePage.wheels + 1
       => LET armed == homePage'.advanceTimers - homePage.advanceTimers
              deltaY == homePage'.lastWheel.deltaY
          IN  /\ (~homePage.overlay /\ ~homePage.isScrolling /\ deltaY > 0) => armed = 1
              /\ (deltaY <= 0 \/ homePage.isScrolling) => armed = 0]_vars

\* C35: the scroll lock set by a downward wheel event is always released:
\* while the home page is rendered and isScrolling is true, the 1000 ms timer
\* that sets it to false again is pending (nothing else sets it to false)
C35_LockIsReleased ==
    (homePage.rendered /\ homePage.isScrolling) => homePage.scrollTimeout

----------------------------------------------------------------------------
(* Claims about the render loop, checked under SpecBurst and SpecFrames *)

\* C25: a frame tick updates the cells and renders if and only if the time since
\* the previous rendered frame is at least the target interval, 1000/60 ms while
\* the button is down and 1000/30 ms otherwise; a tick under the interval changes
\* nothing of the engine and only asks for the next tick.
C25_RenderIffIntervalElapsed ==
    [][(sinceFrame' # sinceFrame \/ frames' # frames)
       => LET elapsed == sinceFrame + rafGap
              target == IF isDown THEN DragInterval ELSE IdleInterval
          IN  /\ frames' = frames + 1 <=> elapsed >= target
              /\ frames' = frames + 1 => sinceFrame' = 0
              /\ elapsed < target
                 => /\ sinceFrame' = elapsed
                    /\ rafPending' = rafPending
                    /\ UNCHANGED <<cubes, isDown, history, currentSpeed, sinceAct, frames,
                                   moves, sphereVars, mounted, dragVars, faceVars,
                                   textureVars, lastStep, homePage, lazyMedia, poolVars>>]_vars

\* a tick was skipped while the button was up and a cell was exploding
C25_Witness ==
    /\ ~isDown
    /\ sinceFrame = DragInterval
    /\ frames > 1
    /\ \E c \in Cells : cubes[c].isExploding /\ cubes[c].explodeTimer > 0

\* C26: the time step passed to updateCubeAnimations is never more than 0.033 s
\* and never negative, however long the gap between two frame ticks was.
C26_StepWithinLimit ==
    lastStep.actualDeltaTime >= 0 /\ lastStep.actualDeltaTime <= 99

\* a frame was rendered after a stall of 10 s, at the largest step
C26_Witness ==
    /\ frames > 1
    /\ lastStep.deltaTime >= StallTime
    /\ lastStep.actualDeltaTime = 99

----------------------------------------------------------------------------
(* Claims about texture updates, checked under SpecTexture *)

\* how often the front material of cell c was replaced in a run that has
\* replaced the cells of `done`
TimesUpdated(done, c) == Cardinality({i \in 1 .. Len(done) : done[i] = c})

\* ceil(N / batchSize)
BatchesNeeded == (numCubes + BatchSize - 1) \div BatchSize

\* C23: a texture update run over N cells, with no other run and no resize
\* meanwhile, processes at most 25 cells in a tick, replaces the front texture of
\* each cell exactly once, and ends after ceil(N / 25) batches with every cell
\* carrying the new texture.
C23_RunReplacesEachCellOnce ==
    [][/\ Len(updated') - (IF textureRun'.batches = 1 THEN 0 ELSE Len(updated)) <= BatchSize
       /\ \A c \in 1 .. numCubes : TimesUpdated(updated', c) <= 1
       /\ textureRun'.requested => textureRun'.batches < BatchesNeeded
       /\ ~textureRun'.requested
          => /\ textureRun'.batches = BatchesNeeded
             /\ \A c \in 1 .. numCubes :
                    /\ TimesUpdated(updated', c) = 1
                    /\ frontTexture'[c] = textureRun'.texture]_vars

\* a run of three batches has ended and has changed the texture
C23_Witness ==
    /\ numCubes > 2 * BatchSize
    /\ textureRun.batches = 3
    /\ ~textureRun.requested
    /\ textureRun.texture = 2
    /\ \A c \in 1 .. numCubes : frontTexture[c] = 2

\* C24: within one run the cells are updated in non-increasing order of the
\* score 0.7 x facing + 0.3 x proximity that was computed when the run started.
C24_UpdatedByDescendingPriority ==
    \A i, j \in 1 .. Len(updated) :
        i < j => textureRun.priority[updated[i]] >= textureRun.priority[updated[j]]

\* a run of three batches has ended whose cells had different scores, some of
\* them equal, and which did not begin with the first cell of cubesData
C24_Witness ==
    /\ textureRun.batches = 3
    /\ ~textureRun.requested
    /\ updated[1] # 1
    /\ \E c, d \in 1 .. numCubes : textureRun.priority[c] < textureRun.priority[d]
    /\ \E c, d \in 1 .. numCubes : c # d /\ textureRun.priority[c] = textureRun.priority[d]

----------------------------------------------------------------------------
(* Claims about overlapping texture updates, checked under SpecOverlap *)

\* no processBatch is requested, by the last run or by a run before it
RunsFinished == ~textureRun.requested /\ textureRun.earlier = <<>>

\* C37: when a run for texture B is started while an earlier run for texture A
\* has batches pending, every cell carries texture B once both runs have
\* finished, also when the two runs sorted the cells differently.
C37_LaterRunWins ==
    (RunsFinished /\ textureRun.batches > 0)
        => \A c \in 1 .. numCubes : frontTexture[c] = textureRun.texture

----------------------------------------------------------------------------
(* Claims about the cell animation, checked under SpecCell *)

\* the Idle state: no trail, return or explode flag, flip progress 0
Idle(c) == ~c.isInTrail /\ ~c.isInReturn /\ ~c.isExploding /\ c.flipProgress = 0

\* C1: a cell that was activated (hit inside its influence radius) and has since
\* seen more than trailDuration + returnDuration of rendered frame time without a
\* further activation is Idle with currentOffset = 0 and currentOpacity = 1,
\* whether or not a pointer move was delivered after the activation.
C1_ActiveReachesIdle ==
    \A c \in Cells :
        sinceAct[c] > SettleTime
        => Idle(cubes[c]) /\ cubes[c].currentOffset = 0 /\ cubes[c].currentOpacity = 1000

\* C2: after every handler and every rendered frame, every cell's flipProgress
\* lies in [0, 1].
C2_FlipProgressInUnitInterval ==
    \A c \in Cells : cubes[c].flipProgress >= 0 /\ cubes[c].flipProgress <= 1000

\* C3: after every handler and every rendered frame, every cell's currentOpacity
\* lies in [0, 1].
C3_OpacityInUnitInterval ==
    \A c \in Cells : cubes[c].currentOpacity >= 0 /\ cubes[c].currentOpacity <= 1000

\* a frame has been rendered that left an exploding cell with a dipped opacity
C3_Witness ==
    \E c \in Cells :
        frames > 0 /\ cubes[c].isExploding /\ cubes[c].explodeTimer > 0
        /\ cubes[c].currentOpacity < 1000

\* C22: updateCubeAnimations writes a cell's currentOpacity to that cell's own
\* front material only; the five side materials, which every cell shares, keep
\* the opacity they were created with, so that animating one cell never changes
\* how another cell looks.
C22_SharedFacesKeepOpacity == sideOpacity = FullOpacity

\* the rest values of the fields that the end of the return resets
AtRest(c) ==
    /\ ~c.isInTrail /\ ~c.isInReturn /\ ~c.isExploding
    /\ c.currentOffset = 0 /\ c.targetOffset = 0
    /\ c.currentRotationAngle = 0
    /\ c.flipProgress = 0 /\ c.targetFlipProgress = 0
    /\ c.rotationVelocity = 0
    /\ c.trailTimer = 0
    /\ c.currentOpacity = 1000 /\ c.targetOpacity = 1000

\* how many of the flags isInTrail, isInReturn and isExploding a cell has set
FlagsSet(c) ==
    (IF c.isInTrail THEN 1 ELSE 0) + (IF c.isInReturn THEN 1 ELSE 0)
        + (IF c.isExploding THEN 1 ELSE 0)

\* C36: in every reachable state every cell has at most one of the flags
\* isInTrail, isInReturn and isExploding set, however handleCubeFlip,
\* resetTrailStates and updateCubeAnimations follow one another
C36_OneFlagAtMost == \A c \in Cells : FlagsSet(cubes[c]) <= 1

\* a cell that trailed or returned after two pointer moves has been hit by a
\* fast move and explodes, with no other flag left
C36_Witness ==
    /\ moves >= 2 /\ frames >= 2
    /\ \E c \in Cells : cubes[c].isExploding /\ cubes[c].targetFlipProgress > 0

\* the Active state: under the pointer's influence, with no trail, return or
\* explode flag
Active(c) == ~c.isInTrail /\ ~c.isInReturn /\ ~c.isExploding /\ c.targetFlipProgress > 0

\* C29: a Returning cell becomes Idle on the first frame at which its
\* accumulated return time reaches returnDuration, and not earlier (until then
\* it is Returning, or a pointer hit has made it Active again); at that frame
\* currentOffset, targetOffset, currentRotationAngle, flipProgress,
\* targetFlipProgress, rotationVelocity and trailTimer are 0, currentOpacity and
\* targetOpacity are 1, and no trail, return or explode flag is set.
C29_ReturnEndsAtRest ==
    [][\A c \in Cells :
          cubes[c].isInReturn
          => IF /\ frames' = frames + 1
                /\ cubes[c].trailTimer + lastStep'.actualDeltaTime >= ReturnDuration
             THEN AtRest(cubes'[c])
             ELSE ~AtRest(cubes'[c]) /\ (Idle(cubes'[c]) => Active(cubes'[c]))]_vars

\* a cell that was activated has trailed, returned and is at rest again
C29_Witness ==
    \E c \in Cells :
        /\ frames > 0
        /\ sinceAct[c] > TrailDuration + ReturnDuration
        /\ sinceAct[c] < ClockCap
        /\ AtRest(cubes[c])

\* C28: a cell enters Exploding only from Active: a cell that is Idle, Trailing
\* or Returning when a fast pointer sample hits within its influence radius is
\* not Exploding after that step.
C28_ExplodesOnlyFromActive ==
    [][\A c \in Cells :
          (cubes'[c].isExploding /\ ~cubes[c].isExploding) => Active(cubes[c])]_vars

----------------------------------------------------------------------------
(* Claims about the explosion, checked under SpecBurst *)

\* the last step sampled a hover move that hit within the radius of cell c, at an
\* averaged speed above the threshold
FastHit(c) ==
    sinceMouse = 0 /\ moves > 0 /\ sinceAct[c] = 0 /\ currentSpeed > MouseSpeedThreshold

\* a rendered frame left cell c exploding
ExplodingFrame(c) == cubes[c].isExploding /\ cubes[c].explodeTimer > 0

\* cell c has exploded at some time
HasExploded(c) == cubes[c].explodeIntensity > 0

----------------------------------------------------------------------------
(* Claims about the geometry, checked under SpecSphere *)

\* C12: for every radius, the two polar rings (ring 0 and the last ring) have
\* at least the configured number of cells per ring
\* (SPHERE_CONFIG.cubesPerRing), and no ring has fewer cells than that
C12_RingsHaveConfiguredCells ==
    /\ ringCells[1] >= CubesPerRing
    /\ ringCells[Rings] >= CubesPerRing
    /\ \A i \in 1 .. Rings : ringCells[i] >= CubesPerRing

\* C31: on every resize while a sphere exists, with a texture or with the
\* placeholder material, the sphere is rebuilt for the radius of the new
\* height, which is never below the minimum radius; every cell of the new
\* sphere is Idle, and the new cells show what the old ones showed (the active
\* texture or the placeholder)
C31_ResizeRebuildsSphere ==
    [][(cubeGroup /\ viewportHeight' # viewportHeight)
       => /\ sphereRadius' = calculateSphereSize(viewportHeight')
          /\ sphereRadius' >= MinRadius
          /\ ringCells' = generateCubePositions(sphereRadius')
          /\ \A c \in Cells : Idle(cubes'[c])
          /\ displayed' = displayed]_vars

\* C32: the rings sit at the centres of Rings equal bands of (0, PI): ring k
\* has the polar angle (k + 0.5) * PI / Rings, so the angles of ring k and of
\* ring Rings - 1 - k add up to PI (to within the rounding of the angles)
C32_RingsCentredInBands ==
    \A k \in 0 .. Rings - 1 :
        /\ Abs(ringPhi[k + 1] - RDiv(1000 * (2 * k + 1), 2 * Rings)) <= 1
        /\ Abs(ringPhi[k + 1] + ringPhi[Rings - k] - 1000) <= 1

----------------------------------------------------------------------------
(* Claims about the life cycle, checked under SpecLife *)

\* C13: between mount and teardown the render loop never stops: every call of
\* animate requests exactly one next call, so exactly one request is pending
\* after every step, whatever the state of the pool (loads pending, failed or
\* timed out, every identifier blacklisted, the placeholder shown).
C13_LoopKeepsRunning == mounted => rafPending = 1

\* frames have been rendered while the only video is blacklisted and the
\* placeholder is shown
C13_Witness ==
    /\ mounted /\ frames >= 2 /\ rafPending = 1
    /\ failedVideos = MediaIds /\ displayed = Placeholder

\* what videoPoolRef holds: the identifiers with an entry, each with its flags
\* and whether it has a texture
PoolContents ==
    {<<id, videoPool[id].isReady, videoPool[id].isLoading, videoPool[id].texture>> :
        id \in {j \in MediaIds : videoPool[j].present}}

\* C14: after the cleanup of the mount effect has run, no callback the engine
\* registered (render frame, processBatch frame, load timeout, retry or
\* next-video timer, staggered preload start, forced-fallback timer, media
\* load or error event) runs and mutates the cells, the scene, the pool or the
\* blacklist.
C14_NothingRunsAfterTeardown ==
    [][~mounted => /\ UNCHANGED <<cubes, cubesData>>
                   /\ UNCHANGED <<cubeGroup, sphereBuilds, displayed>>
                   /\ PoolContents' = PoolContents
                   /\ failedVideos' = failedVideos]_vars

\* C15: after the cleanup of the mount effect, every texture the engine created
\* (pooled, direct-load, per cell) is disposed, every media element detached,
\* and the pool is empty and stays empty, also for loads that were in flight or
\* not yet started at the cleanup. The formula is the part about the pool and
\* about the textures of pooled and direct loads.
C15_TeardownReleasesEverything ==
    ~mounted =>
        /\ PoolContents = {}
        /\ \A id \in MediaIds : ~videoPool[id].texture
        /\ \A i \in 1 .. Len(directs) : ~directs[i].texture

----------------------------------------------------------------------------
(* Claims about the video pool, checked under SpecPool *)

\* the load attempts of id made so far: its preloadVideo call and its direct loads
Attempts(id) ==
    Cardinality({i \in 1 .. Len(directs) : directs[i].id = id})
    + (IF preloadCalls[id] = "waiting" THEN 0 ELSE 1)

\* the loads of id that are in flight
Fetching(id) ==
    Cardinality(InFlight(id)) + (IF PreloadInFlight(id) THEN 1 ELSE 0)

\* nothing is loading id and no timer is going to load it
Quiet(id) == Fetching(id) = 0 /\ \A t \in timers : t.id # id

\* the Ready state of an identifier
Ready(id) == videoPool[id].present /\ videoPool[id].isReady

\* nothing the engine started is still to come: no effect, timer, load or
\* media event is pending, so only a click can change the state
Settled ==
    /\ effectPending = "none"
    /\ timers = {}
    /\ ~forcedTimer
    /\ \A i \in 1 .. Len(directs) : ~directs[i].armed
    /\ \A id \in MediaIds :
           /\ preloadCalls[id] # "waiting"
           /\ ~(videoPool[id].onLoaded /\ ~videoPool[id].srcCleared)
           /\ ~(videoPool[id].onError
                /\ (videoPool[id].srcCleared \/ videoPool[id].isLoading))
           /\ ~(videoPool[id].timeout /\ videoPool[id].isLoading)

\* C4: of the clicks that come less than 300 ms apart, exactly one starts a swap
\* or a load; the later ones are dropped.
C4_OneSwitchPerWindow == burst <= 1

\* C5: at any time at most one load per identifier is in flight.
C5_OneLoadPerIdentifier == \A id \in MediaIds : Fetching(id) <= 1

\* C6: without a click, an identifier whose first two load attempts ended in a
\* transient failure and whose third attempt completed, and for which nothing
\* more is loading or scheduled, is Ready and not blacklisted.
C6_ReadyAfterThirdAttempt ==
    \A id \in MediaIds :
        (/\ clicks = 0
         /\ Attempts(id) = 3
         /\ outcomes[id] = <<"transient", "transient", "ok">>
         /\ Quiet(id))
        => Ready(id) /\ id \notin failedVideos

\* C7: without a click, the error path schedules at most 2 retries of an
\* identifier, and the retry scheduled when a retry fails waits longer than
\* that retry did.
C7_BoundedBackoff ==
    clicks = 0
    => /\ \A id \in MediaIds : Len(retries[id]) <= 2
       /\ \A t \in timers :
              (t.again /\ directs[t.by].again)
              => DelayOf(directs[t.by].cause) < DelayOf(t.kind)

\* C8: with a single identifier none of whose loads has completed, once the
\* placeholder is displayed it stays displayed, no load is started and the sphere
\* is not rebuilt, unless the user clicks.
C8_PlaceholderIsStable ==
    [][(/\ numMedia = 1
        /\ displayed = Placeholder
        /\ everLoaded = {}
        /\ everLoaded' = {}
        /\ clicks' = clicks)
       => /\ Len(directs') = Len(directs)
          /\ sphereBuilds' = sphereBuilds
          /\ displayed' = Placeholder]_vars

\* C9: a click that swaps instantly while at least two identifiers are Ready
\* swaps to an identifier other than the displayed one, and the recorded current
\* identifier is the displayed one whenever a video is displayed.
C9_SwitchesToAnother ==
    /\ (lastSwitch.kind = "instant" /\ lastSwitch.ready >= 2)
       => lastSwitch.target # lastSwitch.before
    /\ displayed \in MediaIds => currentVideoPath = displayed

\* C10: a click that swaps instantly leaves the element that was the main one
\* paused, makes the target's pooled element the main one and plays it, gives
\* the sphere the target's texture and starts no load; and no load is ever
\* started because of an instant swap.
C10_InstantSwitchLoadsNothing ==
    [][/\ (clicks' # clicks /\ lastSwitch'.kind = "instant")
          => /\ videoElement' = PoolElement(lastSwitch'.target)
             /\ videoPool'[lastSwitch'.target].playing
             /\ (videoElement.kind = "direct") => ~directs'[videoElement.ref].playing
             /\ (videoElement.kind = "pool" /\ videoElement # videoElement')
                => ~videoPool'[videoElement.ref].playing
             /\ displayed' = lastSwitch'.target
             /\ Len(directs') = Len(directs)
       /\ \A i \in 1 .. Len(directs') : directs'[i].cause # "switch"]_vars

\* C16: whenever every identifier of the media list is in the blacklist, by a
\* preload failure or by a direct-load failure, the engine falls back to the
\* placeholder without a user gesture: once everything it started has run, the
\* sphere shows the placeholder.
C16_ExhaustionShowsPlaceholder ==
    (failedVideos = MediaIds /\ Settled) => displayed = Placeholder

\* a click was made when every identifier was blacklisted and no switch had been
\* accepted in the 300 ms before it
ExhaustedClick ==
    /\ clicks' = clicks + 1
    /\ failedVideos = MediaIds
    /\ ~switchWindow

C18_QueueAndBlacklistDisjoint ==
    \A i \in 1 .. Len(preloadQueue) : preloadQueue[i] \notin failedVideos

\* C19: for every pool entry, the texture is present exactly when the entry is
\* Ready, and no entry is both Ready and Loading.
C19_TextureIffReady ==
    \A id \in MediaIds :
        videoPool[id].present
        => /\ videoPool[id].texture <=> videoPool[id].isReady
           /\ ~(videoPool[id].isReady /\ videoPool[id].isLoading)

\* the pool holds a Ready entry with its texture next to a Loading entry
\* without one
C19_Witness ==
    \E id, other \in MediaIds :
        /\ videoPool[id].present /\ videoPool[id].isReady /\ videoPool[id].texture
        /\ videoPool[other].present /\ videoPool[other].isLoading
        /\ ~videoPool[other].texture

\* C21: when a click arrives and no pooled video is Ready, the identifier chosen
\* for the fallback load is not blacklisted and, whenever more than one
\* identifier is not blacklisted, differs from the current identifier.
C21_FallbackLoadAvoidsCurrent ==
    [][(clicks' = clicks + 1 /\ lastSwitch'.kind = "load")
       => /\ lastSwitch'.target \notin failedVideos'
          /\ Cardinality(Available(failedVideos')) > 1
             => lastSwitch'.target # currentVideoPath]_vars

\* the direct load of element i has been settled as a failure: its listeners
\* and its 5 s timer are gone and it has no texture
DirectSettled(i) == ~directs[i].armed /\ ~directs[i].texture

\* the direct loads whose handleError has scheduled a load that is yet to begin
FailedLoads == {t.by : t \in {u \in timers : u.kind \in {"retry", "next"}}}

\* handleError of loadAndApplyTexture has gone on from element i: a load is
\* scheduled on its behalf, or the placeholder sphere is shown
HandledOn(i) ==
    \/ \E t \in timers' \ timers : t.by = i /\ t.kind \in {"retry", "next"}
    \/ displayed' = Placeholder

\* C30: a load that has not completed when its timer expires (5 s for a direct
\* load, 8 s for a preload) is settled as a failure: the direct load goes
\* through the error path, the preload is rejected, its entry dropped and its
\* identifier blacklisted; and no later step marks a load settled in this way
\* Ready or gives it a texture
C30_TimeoutSettlesAsFailure ==
    [][/\ \A i \in 1 .. Len(directs) :
              /\ DirectTimeout(i) => (~directs'[i].texture /\ HandledOn(i))
              /\ (DirectSettled(i) \/ i \in FailedLoads) => ~directs'[i].texture
       /\ \A id \in MediaIds :
              /\ PreloadTimeout(id) =>
                     (/\ ~videoPool'[id].present
                      /\ ~videoPool'[id].isReady
                      /\ id \in failedVideos'
                      /\ preloadCalls[id] = "pending" => preloadCalls'[id] = "rejected")
              /\ preloadCalls[id] = "rejected" =>
                     (~videoPool'[id].isReady /\ ~videoPool'[id].texture)]_vars

\* the timers have ended a direct load, whose handleError has scheduled the
\* next one, and a preload, which is rejected
C30_Witness ==
    /\ \E i \in 1 .. Len(directs) :
           /\ DirectSettled(i)
           /\ i \in FailedLoads
           /\ outcomes[directs[i].id] # <<>>
           /\ outcomes[directs[i].id][Len(outcomes[directs[i].id])] = TimedOut
    /\ \E id \in MediaIds :
           /\ preloadCalls[id] = "rejected"
           /\ id \in failedVideos
           /\ outcomes[id][1] = TimedOut

\* a direct load of another identifier was started after that of element i
Superseded(i) == \E j \in i + 1 .. Len(directs) : directs[j].id # directs[i].id

\* C38: when a direct load of B is started while a direct load of A is pending,
\* no later callback of A's load (completion, error, 5 s timeout) applies A's
\* texture, blacklists an identifier or starts a further load.
C38_SupersededLoadIsInert ==
    [][\A i \in 1 .. Len(directs) :
           (Superseded(i) /\ directs[i].armed /\ ~directs'[i].armed)
               => /\ displayed' = displayed
                  /\ failedVideos' = failedVideos
                  /\ timers' \subseteq timers]_vars

\* C39: while the engine is mounted, cleanupVideo is never applied to the
\* element of a pool entry with isReady true, and a Ready identifier is not on
\* the blacklist.
C39_ReadyEntryIsLive ==
    mounted => \A id \in ReadyVideos(videoPool) :
                   ~videoPool[id].srcCleared /\ id \notin failedVideos

----------------------------------------------------------------------------
(* Claims about a media list that names a video twice, checked under SpecQueue *)

\* every timer of preloadVideos has made its call and no pooled element is
\* loading, so the 8 s timers of preloadVideo have nothing left to end
PreloadsOver ==
    /\ \A k \in DOMAIN preloadCalls : preloadCalls[k] # "waiting"
    /\ \A id \in MediaIds : ~PreloadInFlight(id)

\* C40: every call of preloadVideo settles, resolved or rejected, once the load
\* of its identifier has ended (at the latest by the 8 s timeout), also a call
\* for an identifier that was already Loading; the run of preloadVideos then
\* finishes and isPreloading is false.
C40_EveryCallSettles ==
    PreloadsOver
        => /\ \A k \in DOMAIN preloadCalls : preloadCalls[k] \in {"resolved", "rejected"}
           /\ ~isPreloading

----------------------------------------------------------------------------
(* Claims about dragging, checked under SpecDrag *)

\* a pointer move arrives while the button is held
HeldMove == isDown /\ isDown' /\ pointerAt' # pointerAt

\* handleMouseMove samples a move: it comes 33 ms or more after the last sampled one
SampledMove == moves' = moves + 1

\* a sampled hover move hits the sphere within the radius of cell c
HoverHit(c) == ~isDown /\ SampledMove /\ sinceAct'[c] = 0

\* cell c is activated: flipped up or exploding, and neither trailing nor returning
Activated(c) ==
    /\ c.isExploding \/ c.targetFlipProgress > 0
    /\ ~c.isInTrail /\ ~c.isInReturn

\* C20: while the button is held, a pointer move adds 0.01 x (deltaX, deltaY),
\* its displacement, to the orientation of the sphere and changes no cell's
\* animation state; after the button is released, pointer moves over the sphere
\* activate cells again.
C20_DragTurnsSphere ==
    [][/\ HeldMove
          => /\ dragRotation'.y = dragRotation.y + (pointerAt'[1] - pointerAt[1])
             /\ dragRotation'.x = dragRotation.x + (pointerAt'[2] - pointerAt[2])
             /\ cubes' = cubes
       /\ \A c \in Cells : HoverHit(c) => Activated(cubes'[c])]_vars

\* C20 as the code has it: a held move that comes 33 ms or more after the last
\* sampled move adds 0.01 x the displacement of the pointer since the press or
\* the last sampled held move; a held move that comes sooner adds nothing, and
\* its displacement is added by the next sampled one; no held move changes a
\* cell; a sampled move over the sphere with the button up activates the cells
\* within the radius.
C20_SampledDragTurnsSphere ==
    [][/\ (HeldMove /\ SampledMove)
          => /\ dragRotation'.y = dragRotation.y + (pointerAt'[1] - mouseAt[1])
             /\ dragRotation'.x = dragRotation.x + (pointerAt'[2] - mouseAt[2])
             /\ mouseAt' = pointerAt'
       /\ (HeldMove /\ ~SampledMove) => UNCHANGED <<dragRotation, mouseAt>>
       /\ HeldMove => cubes' = cubes
       /\ \A c \in Cells : HoverHit(c) => Activated(cubes'[c])]_vars

\* a drag has turned the sphere about both axes, the button is up again and the
\* last sampled move has activated a cell
C20_Witness ==
    /\ ~isDown
    /\ dragRotation.x # 0 /\ dragRotation.y # 0
    /\ \E c \in Cells : sinceAct[c] = 0 /\ sinceMouse = 0 /\ Activated(cubes[c])

----------------------------------------------------------------------------
(* Claims about LazyMedia, checked under SpecLazy *)

\* the automatic retries are used up: the error state that retryLoad sets
Exhausted(l) == l.hasError /\ ~l.isLoading /\ l.retryCount = MaxRetries

\* C33: a failing source is retried automatically at most twice, the n-th
\* retry 1000 * n ms after the failure; after the third failure in a row the
\* component is in the error state (hasError, not isLoading) and makes no
\* further attempt; a load that succeeds resets the retry count to 0
C33_AtMostTwoRetries ==
    /\ Len(lazyMedia.retried) <= MaxRetries
    /\ \A n \in 1 .. Len(lazyMedia.retried) : lazyMedia.retried[n] = RetryStep * n
    /\ lazyMedia.failures >= MaxRetries + 1
          => /\ lazyMedia.hasError /\ ~lazyMedia.isLoading
             /\ lazyMedia.retryTimers = {} /\ ~lazyMedia.fetching
    /\ (lazyMedia.isLoaded \/ lazyMedia.videoLoaded) => lazyMedia.retryCount = 0

\* C34: once the automatic retries are used up, the error placeholder with
\* the retry button is shown, and a press of the button (retryLoad) starts a
\* new attempt: isLoading is true and a timer will set a new URL
C34_RetryButtonRestarts ==
    Exhausted(lazyMedia)
    => /\ RetryButtonShown(lazyMedia)
       /\ retryLoad(lazyMedia).isLoading
       /\ retryLoad(lazyMedia).retryTimers # {}

====
